---- MODULE Spec2Model ----
(***************************************************************************)
(* Virtual-memory core of the pyre kernel: the Frame Ledger (a             *)
(* BitValueArray of frame states), the four-level page-table walk of       *)
(* VirtualMapper and the PageManager operations built on them, in the      *)
(* ownership-mode generation (libkernel / liblz) and in the lock_frame     *)
(* generation (kernel).                                                    *)
(***************************************************************************)
EXTENDS Integers, Sequences, FiniteSets, TLC

(* ------------------------------------------------------------------ *)
(* Bounds of the model                                                 *)
(* ------------------------------------------------------------------ *)

\* Number of machine words of the slice handed to BitValueArray::from_slice.
SectionCount == 4

\* Largest shared-reference count a frame is driven to.
MaxBorrow == 2

\* Number of operations issued after construction.
MaxOps == 2

\* Number of critical sections the two cores run after construction.
MaxSteps == 4

(* ------------------------------------------------------------------ *)
(* Program constants                                                   *)
(* ------------------------------------------------------------------ *)

\* BitValueArray::SECTION_LEN, size_of::<usize>() * 8.
SECTION_LEN == 64

\* BitValue::BIT_WIDTH of the frame-state element.
BIT_WIDTH == 32

\* BitValueArray::ELEMENTS_PER_SECTION.
ELEMENTS_PER_SECTION == SECTION_LEN \div BIT_WIDTH

\* Entries of one page table (0x1FF + 1).
TABLE_SIZE == 512

\* Absent Option / unused operand.
None == -1

\* BitValueArray::element_count: the slice is sized for whole words.
element_count == SectionCount * ELEMENTS_PER_SECTION

Frames == 0 .. (element_count - 1)

(* ------------------------------------------------------------------ *)
(* Frame states (the BitValue stored per frame)                        *)
(* ------------------------------------------------------------------ *)

Free == [k |-> "Free", n |-> 0]
Locked == [k |-> "Locked", n |-> 0]
Reserved == [k |-> "Reserved", n |-> 0]
MMIOFrame == [k |-> "MMIO", n |-> 0]
Borrowed(n) == [k |-> "Borrowed", n |-> n]

(* ------------------------------------------------------------------ *)
(* BitValueArray                                                       *)
(* ------------------------------------------------------------------ *)

\* get_index_and_offset, in element slots rather than bits.
get_index_and_offset(index) ==
    LET bit_index == index * BIT_WIDTH
    IN  [section |-> bit_index \div SECTION_LEN,
         slot |-> (bit_index % SECTION_LEN) \div BIT_WIDTH]

get(array, index) ==
    LET io == get_index_and_offset(index)
    IN  array[io.section][io.slot]

\* insert: unconditional store.
insert(array, index, new_type) ==
    LET io == get_index_and_offset(index)
    IN  [array EXCEPT ![io.section][io.slot] = new_type]

\* insert_eq without the comparison.
insert_eq_unchecked(array, index, new_type, eq_type) ==
    [ok |-> TRUE, array |-> insert(array, index, new_type)]

\* insert_eq: store only when the current element equals eq_type.
insert_eq(array, index, new_type, eq_type) ==
    IF get(array, index) # eq_type
    THEN [ok |-> FALSE, array |-> array]
    ELSE [ok |-> TRUE, array |-> insert(array, index, new_type)]

\* The slots in the order set_eq_next visits them: word by word, offset by offset.
SlotOrder(array) ==
    { s * ELEMENTS_PER_SECTION + o :
        s \in DOMAIN array, o \in 0 .. (ELEMENTS_PER_SECTION - 1) }

\* set_eq_next scanning from the last slot down.
set_eq_next_last(array, new_type, eq_type) ==
    LET hits == { i \in SlotOrder(array) :
                    array[i \div ELEMENTS_PER_SECTION][i % ELEMENTS_PER_SECTION] = eq_type }
    IN  IF hits = {}
        THEN [index |-> None, array |-> array]
        ELSE LET i == CHOOSE x \in hits : \A y \in hits : y <= x
             IN  [index |-> i,
                  array |-> [array EXCEPT
                      ![i \div ELEMENTS_PER_SECTION][i % ELEMENTS_PER_SECTION] = new_type]]

\* set_eq_next: the first slot equal to eq_type is overwritten and its index returned.
set_eq_next(array, new_type, eq_type) ==
    LET hits == { i \in SlotOrder(array) :
                    array[i \div ELEMENTS_PER_SECTION][i % ELEMENTS_PER_SECTION] = eq_type }
    IN  IF hits = {}
        THEN [index |-> None, array |-> array]
        ELSE LET i == CHOOSE x \in hits : \A y \in hits : x <= y
             IN  [index |-> i,
                  array |-> [array EXCEPT
                      ![i \div ELEMENTS_PER_SECTION][i % ELEMENTS_PER_SECTION] = new_type]]

(* ------------------------------------------------------------------ *)
(* Frame Ledger (FrameManager) over the BitValueArray                  *)
(* ------------------------------------------------------------------ *)

\* The typed errors of the Ledger's calls.
FrameError == {"AlreadyLocked", "AlreadyBorrowed", "NotLocked", "IndexOutOfRange"}

\* lock(index): Free -> Locked, else a FrameError.
lock(array, index) ==
    IF index \notin Frames
    THEN [ok |-> FALSE, array |-> array, err |-> "IndexOutOfRange"]
    ELSE LET r == insert_eq(array, index, Locked, Free)
         IN  [ok |-> r.ok, array |-> r.array,
              err |-> IF r.ok THEN "-" ELSE "AlreadyLocked"]

\* free(index): Locked -> Free, else a FrameError.
free(array, index) ==
    IF index \notin Frames
    THEN [ok |-> FALSE, array |-> array, err |-> "IndexOutOfRange"]
    ELSE LET r == insert_eq(array, index, Free, Locked)
         IN  [ok |-> r.ok, array |-> r.array,
              err |-> IF r.ok THEN "-" ELSE "NotLocked"]

\* borrow(index): Free -> Borrowed(1), Borrowed(n) -> Borrowed(n+1), else a FrameError.
borrow(array, index) ==
    IF index \notin Frames
    THEN [ok |-> FALSE, array |-> array, err |-> "IndexOutOfRange"]
    ELSE LET cur == get(array, index)
         IN  IF cur = Free
             THEN [ok |-> TRUE, array |-> insert(array, index, Borrowed(1)), err |-> "-"]
             ELSE IF cur.k = "Borrowed"
             THEN [ok |-> TRUE, array |-> insert(array, index, Borrowed(cur.n + 1)),
                   err |-> "-"]
             ELSE [ok |-> FALSE, array |-> array, err |-> "AlreadyLocked"]

\* drop(index): Borrowed(n) -> Borrowed(n-1), Borrowed(1) -> Free, else a FrameError
\* (the frame is not held).
drop(array, index) ==
    IF index \notin Frames
    THEN [ok |-> FALSE, array |-> array, err |-> "IndexOutOfRange"]
    ELSE LET cur == get(array, index)
         IN  IF cur.k = "Borrowed" /\ cur.n > 1
             THEN [ok |-> TRUE, array |-> insert(array, index, Borrowed(cur.n - 1)),
                   err |-> "-"]
             ELSE IF cur.k = "Borrowed"
             THEN [ok |-> TRUE, array |-> insert(array, index, Free), err |-> "-"]
             ELSE [ok |-> FALSE, array |-> array, err |-> "NotLocked"]

\* lock_next(): first Free frame becomes Locked.
lock_next(array) == set_eq_next(array, Locked, Free)

\* force_modify_type(index, kind): administrative override, no transition check.
force_modify_type(array, index, kind) == insert(array, index, kind)

(* ------------------------------------------------------------------ *)
(* Pages and page-table entries                                        *)
(* ------------------------------------------------------------------ *)

\* Page indices the operations are called with: two pages of one leaf table
\* (Page::from_index of the Reserved frame 0 and of the root frame 1) and one
\* page of another leaf table.
Pages == {0, 1, TABLE_SIZE}

\* Pages the properties ask about: the above and Page::from_index(i) of every frame.
ProbePages == Pages \cup Frames

\* Address<Virtual>::p1_index .. p4_index, on the page index (address >> 12).
p1_index(page) == page % TABLE_SIZE
p2_index(page) == (page \div TABLE_SIZE) % TABLE_SIZE
p3_index(page) == (page \div (TABLE_SIZE * TABLE_SIZE)) % TABLE_SIZE
p4_index(page) == (page \div (TABLE_SIZE * TABLE_SIZE * TABLE_SIZE)) % TABLE_SIZE

\* The table slots the pages above can touch; every other slot stays zero.
Indices ==
    UNION { {p1_index(p), p2_index(p), p3_index(p), p4_index(p)} : p \in ProbePages }

\* TableEntryFlags.
AllFlags ==
    {"PRESENT", "WRITABLE", "USER", "WRITE_THROUGH", "UNCACHEABLE", "ACCESSED",
     "DIRTY", "HUGE", "GLOBAL", "DEMAND", "NO_EXECUTE"}
RO == {"PRESENT", "NO_EXECUTE"}
RW == {"PRESENT", "WRITABLE", "NO_EXECUTE"}
RX == {"PRESENT"}
PTE == {"PRESENT", "WRITABLE", "USER"}
MMIO == RW \cup {"UNCACHEABLE"}

\* Option<PageAttributes>::None of copy_by_map.
NoAttribs == {"none"}

\* TableEntry::empty.
empty == [frame |-> 0, attrs |-> {}]

EmptyTable == [i \in Indices |-> empty]

\* TableEntry::set_frame (kernel: set_frame_index): the flags are kept.
set_frame(entry, frame) == [entry EXCEPT !.frame = frame]

\* TableEntry::get_frame (kernel: get_frame_index): no presence check.
get_frame(entry) == entry.frame

\* ApplyModify with Remove inserting the flags instead.
ApplyModify_remove_inserts(attributes, new_attributes, modify_mode) ==
    CASE modify_mode = "Set" -> new_attributes
      [] modify_mode = "Insert" -> attributes \cup new_attributes
      [] modify_mode = "Remove" -> attributes \cup new_attributes
      [] modify_mode = "Toggle" ->
            (attributes \ new_attributes) \cup (new_attributes \ attributes)

\* AttributeModify applied to the flags of an entry.
ApplyModify(attributes, new_attributes, modify_mode) ==
    CASE modify_mode = "Set" -> new_attributes
      [] modify_mode = "Insert" -> attributes \cup new_attributes
      [] modify_mode = "Remove" -> attributes \ new_attributes
      [] modify_mode = "Toggle" ->
            (attributes \ new_attributes) \cup (new_attributes \ attributes)

\* set_attributes without the NXE check.
set_attributes_keep_nx(entry, new_attributes, modify_mode, nxe) ==
    [entry EXCEPT !.attrs = ApplyModify(entry.attrs, new_attributes, modify_mode)]

\* TableEntry::set_attributes: NO_EXECUTE is dropped when EFER.NXE is clear.
set_attributes(entry, new_attributes, modify_mode, nxe) ==
    LET attributes == ApplyModify(entry.attrs, new_attributes, modify_mode)
        kept == IF nxe THEN attributes ELSE attributes \ {"NO_EXECUTE"}
    IN  [entry EXCEPT !.attrs = kept]

\* PageTableEntry::set (libkernel): frame and flags written together.
PageTableEntry_set(entry, frame_index, attribs) ==
    [frame |-> frame_index, attrs |-> attribs]

\* PageTableEntry::set_attributes (libkernel): the flags as asked.
PageTableEntry_set_attributes(entry, new_attributes, modify_mode) ==
    [entry EXCEPT !.attrs = ApplyModify(entry.attrs, new_attributes, modify_mode)]

\* PageTableEntry::get_frame_index (libkernel): None for a non-present entry.
PageTableEntry_get_frame_index(entry) ==
    IF "PRESENT" \in entry.attrs THEN entry.frame ELSE None

\* PageTableEntry::take_frame_index: returns the frame field and zeroes it.
take_frame_index(entry) ==
    [frame |-> entry.frame, entry |-> [entry EXCEPT !.frame = 0]]

(* ------------------------------------------------------------------ *)
(* VirtualMapper: the four-level walk                                  *)
(* ------------------------------------------------------------------ *)

\* PageTable::sub_table: the frame of the next table, None when the entry is absent.
sub_table(mem, table, index) ==
    IF table = None
    THEN None
    ELSE PageTableEntry_get_frame_index(mem[table][index])

\* get_page_entry that reads the slot out of the root table.
get_page_entry_leaf_only(st, page) ==
    [found |-> "PRESENT" \in st.mem[st.root][p1_index(page)].attrs,
     table |-> st.root, index |-> p1_index(page)]

\* VirtualMapper::get_page_entry / get_page_entry_mut: the leaf slot of page,
\* found whenever the three tables above it exist.
get_page_entry(st, page) ==
    LET p3 == sub_table(st.mem, st.root, p4_index(page))
        p2 == sub_table(st.mem, p3, p3_index(page))
        p1 == sub_table(st.mem, p2, p2_index(page))
    IN  [found |-> p1 # None, table |-> p1, index |-> p1_index(page)]

\* PageTable::sub_table_create: as sub_table, but an absent entry gets a frame
\* from lock_next (the walk panics when there is none), the frame is zeroed
\* and the entry becomes PRESENT | WRITABLE | USER.
sub_table_create(w, index) ==
    IF ~w.ok
    THEN w
    ELSE LET next == PageTableEntry_get_frame_index(w.mem[w.table][index])
         IN  IF next # None
             THEN [w EXCEPT !.table = next]
             ELSE LET r == lock_next(w.array)
                  IN  IF r.index = None
                      THEN [w EXCEPT !.ok = FALSE]
                      ELSE [ok |-> TRUE,
                            table |-> r.index,
                            array |-> r.array,
                            mem |-> [w.mem EXCEPT
                                ![w.table][index] = PageTableEntry_set(@, r.index, PTE),
                                ![r.index] = EmptyTable]]

\* VirtualMapper::get_page_entry_create: the leaf slot of page, creating the
\* tables above it; ok is FALSE when the walk panicked.
get_page_entry_create(st, page) ==
    LET w4 == [ok |-> TRUE, table |-> st.root, array |-> st.array, mem |-> st.mem]
        w3 == sub_table_create(w4, p4_index(page))
        w2 == sub_table_create(w3, p3_index(page))
        w1 == sub_table_create(w2, p2_index(page))
    IN  [ok |-> w1.ok, table |-> w1.table, index |-> p1_index(page),
         array |-> w1.array, mem |-> w1.mem]

(* ------------------------------------------------------------------ *)
(* PageManager, ownership-mode generation (libkernel, liblz)           *)
(* ------------------------------------------------------------------ *)

\* The result of an operation on the state st = [mem, array, root].
Outcome(st, mem, array, res) ==
    [mem |-> mem, array |-> array, root |-> st.root, res |-> res]

\* The leaf entry a walk result points at.
EntryAt(mem, e) == mem[e.table][e.index]

\* PageManager::map, the match on ownership: how the frame is acquired.
lk_acquire(array, frame_index, ownership) ==
    CASE ownership = "None" -> [ok |-> TRUE, array |-> array]
      [] ownership = "Borrowed" -> borrow(array, frame_index)
      [] ownership = "Locked" -> lock(array, frame_index)

\* PageManager::map: acquire the frame as ownership asks, then install the entry.
lk_map(st, page, frame_index, ownership, attribs) ==
    LET acq == lk_acquire(st.array, frame_index, ownership)
    IN  IF ~acq.ok
        THEN Outcome(st, st.mem, st.array, "FrameError")
        ELSE LET c == get_page_entry_create(
                          [mem |-> st.mem, array |-> acq.array, root |-> st.root], page)
             IN  IF ~c.ok
                 THEN Outcome(st, c.mem, c.array, "panic")
                 ELSE Outcome(st,
                        [c.mem EXCEPT ![c.table][c.index] =
                            PageTableEntry_set(@, frame_index, attribs)],
                        c.array, "Ok")

\* lk_unmap that hands the leaf table of the page back to the Ledger.
lk_unmap_reclaiming(st, page, ownership) ==
    LET e == get_page_entry(st, page)
    IN  IF ~e.found
        THEN Outcome(st, st.mem, st.array, "NotMapped")
        ELSE Outcome(st,
               [st.mem EXCEPT ![e.table][e.index] =
                   PageTableEntry_set_attributes(@, {"PRESENT"}, "Remove")],
               force_modify_type(st.array, e.table, Free), "Ok")

\* PageManager::unmap: clear PRESENT, release the frame the entry names.
lk_unmap(st, page, ownership) ==
    LET e == get_page_entry(st, page)
    IN  IF ~e.found
        THEN Outcome(st, st.mem, st.array, "NotMapped")
        ELSE LET cleared == PageTableEntry_set_attributes(
                                EntryAt(st.mem, e), {"PRESENT"}, "Remove")
                 taken == take_frame_index(cleared)
                 rel == CASE ownership = "Borrowed" -> drop(st.array, taken.frame)
                          [] ownership = "Locked" -> free(st.array, taken.frame)
                          [] OTHER -> [ok |-> TRUE, array |-> st.array]
             IN  IF ownership = "None"
                 THEN Outcome(st, [st.mem EXCEPT ![e.table][e.index] = cleared],
                              st.array, "Ok")
                 ELSE Outcome(st, [st.mem EXCEPT ![e.table][e.index] = taken.entry],
                              rel.array, IF rel.ok THEN "Ok" ELSE "panic")

\* PageManager::copy_by_map, first critical section: read and clear the source.
lk_copy_take(st, unmap_from, new_attribs) ==
    LET e == get_page_entry(st, unmap_from)
    IN  IF ~e.found
        THEN [found |-> FALSE, attribs |-> {}, frame_index |-> None, mem |-> st.mem]
        ELSE LET entry == EntryAt(st.mem, e)
                 attribs == IF new_attribs = NoAttribs THEN entry.attrs ELSE new_attribs
                 taken == take_frame_index(
                              PageTableEntry_set_attributes(entry, {}, "Set"))
             IN  [found |-> TRUE, attribs |-> attribs, frame_index |-> taken.frame,
                  mem |-> [st.mem EXCEPT ![e.table][e.index] = taken.entry]]

\* PageManager::copy_by_map: the source is taken, then self.map installs it at map_to.
lk_copy_by_map(st, unmap_from, map_to, new_attribs) ==
    LET t == lk_copy_take(st, unmap_from, new_attribs)
    IN  IF ~t.found
        THEN Outcome(st, st.mem, st.array, "NotMapped")
        ELSE lk_map([st EXCEPT !.mem = t.mem], map_to, t.frame_index, "None", t.attribs)

\* lk_auto_map that maps the first Free frame without taking it from the Ledger.
lk_auto_map_unlocked(st, page, attribs) ==
    LET r == set_eq_next(st.array, Free, Free)
    IN  IF r.index = None
        THEN Outcome(st, st.mem, st.array, "panic")
        ELSE lk_map(st, page, r.index, "None", attribs)

\* PageManager::auto_map: lock_next().unwrap(), then map(.., None, ..).unwrap().
lk_auto_map(st, page, attribs) ==
    LET r == lock_next(st.array)
    IN  IF r.index = None
        THEN Outcome(st, st.mem, st.array, "panic")
        ELSE lk_map([st EXCEPT !.array = r.array], page, r.index, "None", attribs)

\* identity_map that acquires the frame as its exclusive owner.
identity_map_locked(st, page, attribs) == lk_map(st, page, page, "Locked", attribs)

\* PageManager::identity_map (liblz): map the page to the frame of its own index.
identity_map(st, page, attribs) == lk_map(st, page, page, "None", attribs)

\* PageManager::is_mapped.
is_mapped(st, page) ==
    LET e == get_page_entry(st, page)
    IN  e.found /\ "PRESENT" \in EntryAt(st.mem, e).attrs

\* PageManager::get_mapped_to (libkernel): the frame of a present entry.
lk_get_mapped_to(st, page) ==
    LET e == get_page_entry(st, page)
    IN  IF e.found THEN PageTableEntry_get_frame_index(EntryAt(st.mem, e)) ELSE None

\* PageManager::get_page_attribs.
get_page_attributes(st, page) ==
    LET e == get_page_entry(st, page)
    IN  IF e.found THEN EntryAt(st.mem, e).attrs ELSE NoAttribs

\* PageManager::set_page_attribs (libkernel): NO_EXECUTE is removed from the
\* request when EFER.NXE is clear.
lk_set_page_attribs(st, page, attributes, modify_mode, nxe) ==
    LET e == get_page_entry(st, page)
        asked == IF nxe THEN attributes ELSE attributes \ {"NO_EXECUTE"}
    IN  IF ~e.found
        THEN Outcome(st, st.mem, st.array, "Ok")
        ELSE Outcome(st,
               [st.mem EXCEPT ![e.table][e.index] =
                   PageTableEntry_set_attributes(@, asked, modify_mode)],
               st.array, "Ok")

(* ------------------------------------------------------------------ *)
(* PageManager, lock_frame generation (kernel)                         *)
(* ------------------------------------------------------------------ *)

\* k_map that installs the entry whatever lock() answered.
k_map_ignore_lock(st, page, frame_index, lock_frame, attributes, nxe) ==
    LET acq == IF lock_frame
               THEN lock(st.array, frame_index)
               ELSE [ok |-> TRUE, array |-> st.array]
        c == get_page_entry_create(
                 [mem |-> st.mem, array |-> acq.array, root |-> st.root], page)
    IN  IF ~c.ok
        THEN Outcome(st, c.mem, c.array, "panic")
        ELSE Outcome(st,
               [c.mem EXCEPT ![c.table][c.index] =
                   set_attributes(set_frame(@, frame_index), attributes, "Set", nxe)],
               c.array, "Ok")

\* PageManager::map: lock the frame when lock_frame, then set_frame_index and
\* set_attributes(Set) on the created entry.
k_map(st, page, frame_index, lock_frame, attributes, nxe) ==
    LET acq == IF lock_frame
               THEN lock(st.array, frame_index)
               ELSE [ok |-> TRUE, array |-> st.array]
    IN  IF ~acq.ok
        THEN Outcome(st, st.mem, st.array, "FrameError")
        ELSE LET c == get_page_entry_create(
                          [mem |-> st.mem, array |-> acq.array, root |-> st.root], page)
             IN  IF ~c.ok
                 THEN Outcome(st, c.mem, c.array, "panic")
                 ELSE Outcome(st,
                        [c.mem EXCEPT ![c.table][c.index] =
                            set_attributes(set_frame(@, frame_index),
                                           attributes, "Set", nxe)],
                        c.array, "Ok")

\* k_unmap that releases the frame with force_modify_type instead of free.
k_unmap_force_free(st, page, free_frame, nxe) ==
    LET e == get_page_entry(st, page)
    IN  IF ~e.found
        THEN Outcome(st, st.mem, st.array, "NotMapped")
        ELSE LET cleared == set_attributes(EntryAt(st.mem, e), {"PRESENT"}, "Remove", nxe)
                 taken == take_frame_index(cleared)
             IN  IF ~free_frame
                 THEN Outcome(st, [st.mem EXCEPT ![e.table][e.index] = cleared],
                              st.array, "Ok")
                 ELSE Outcome(st, [st.mem EXCEPT ![e.table][e.index] = taken.entry],
                              force_modify_type(st.array, taken.frame, Free), "Ok")

\* PageManager::unmap: clear VALID, free the frame when free_frame.
k_unmap(st, page, free_frame, nxe) ==
    LET e == get_page_entry(st, page)
    IN  IF ~e.found
        THEN Outcome(st, st.mem, st.array, "NotMapped")
        ELSE LET cleared == set_attributes(EntryAt(st.mem, e), {"PRESENT"}, "Remove", nxe)
                 taken == take_frame_index(cleared)
                 rel == free(st.array, taken.frame)
             IN  IF ~free_frame
                 THEN Outcome(st, [st.mem EXCEPT ![e.table][e.index] = cleared],
                              st.array, "Ok")
                 ELSE Outcome(st, [st.mem EXCEPT ![e.table][e.index] = taken.entry],
                              rel.array, IF rel.ok THEN "Ok" ELSE "panic")

\* PageManager::copy_by_map: source cleared and destination installed under one
\* write lock.
k_copy_by_map(st, unmap_from, map_to, new_attribs, nxe) ==
    LET e == get_page_entry(st, unmap_from)
    IN  IF ~e.found
        THEN Outcome(st, st.mem, st.array, "NotMapped")
        ELSE LET entry == EntryAt(st.mem, e)
                 attribs == IF new_attribs = NoAttribs THEN entry.attrs ELSE new_attribs
                 taken == take_frame_index(set_attributes(entry, {}, "Set", nxe))
                 mem1 == [st.mem EXCEPT ![e.table][e.index] = taken.entry]
                 c == get_page_entry_create([st EXCEPT !.mem = mem1], map_to)
             IN  IF ~c.ok
                 THEN Outcome(st, c.mem, c.array, "panic")
                 ELSE Outcome(st,
                        [c.mem EXCEPT ![c.table][c.index] =
                            set_attributes(set_frame(@, taken.frame),
                                           attribs, "Set", nxe)],
                        c.array, "Ok")

\* PageManager::auto_map.
k_auto_map(st, page, attribs, nxe) ==
    LET r == lock_next(st.array)
    IN  IF r.index = None
        THEN Outcome(st, st.mem, st.array, "panic")
        ELSE k_map([st EXCEPT !.array = r.array], page, r.index, FALSE, attribs, nxe)

\* PageManager::get_mapped_to (kernel): the frame field of the leaf entry.
k_get_mapped_to(st, page) ==
    LET e == get_page_entry(st, page)
    IN  IF e.found THEN get_frame(EntryAt(st.mem, e)) ELSE None

\* PageManager::set_page_attributes (kernel).
k_set_page_attributes(st, page, attributes, modify_mode, nxe) ==
    LET e == get_page_entry(st, page)
    IN  IF ~e.found
        THEN Outcome(st, st.mem, st.array, "Ok")
        ELSE Outcome(st,
               [st.mem EXCEPT ![e.table][e.index] =
                   set_attributes(@, attributes, modify_mode, nxe)],
               st.array, "Ok")

\* PageManager::map_mmio: lock(..).ok(), force_modify_type(.., MMIO).ok(), then
\* re-flag the page when it is mapped already and map it otherwise.
map_mmio(st, page, frame_index, nxe) ==
    LET l == lock(st.array, frame_index)
        array1 == IF frame_index \in Frames
                  THEN force_modify_type(l.array, frame_index, MMIOFrame)
                  ELSE l.array
        st1 == [st EXCEPT !.array = array1]
    IN  IF is_mapped(st1, page)
        THEN k_set_page_attributes(st1, page, MMIO, "Set", nxe)
        ELSE k_map(st1, page, frame_index, FALSE, MMIO, nxe)

(* ------------------------------------------------------------------ *)
(* State                                                               *)
(* ------------------------------------------------------------------ *)

VARIABLES
    impl,    \* which generation is running: "libkernel", "kernel" (PageManager),
             \* "walker" (TableEntryCell) or "heap" (BlockAllocator)
    nxe,     \* IA32_EFER.NXE of the CPU
    array,   \* the Ledger's BitValueArray: word -> slot -> frame state
    mem,     \* physical memory read as page tables: frame -> index -> entry
    root,    \* VirtualMapper::pml4_frame / root_frame_index
    halted,  \* a panic (failed unwrap / expect) has stopped the kernel
    last,    \* the call made by the latest step and its result
    installed, \* history: page -> the frame and ownership its latest map or
             \* copy_by_map installed as a present entry, forgotten when a
             \* later map, unmap or copy_by_map targets the page
    ops,     \* number of operations issued so far
    cpu,     \* per core: the section of map / copy_by_map it is in and what it
             \* carries to the next one; by: the core that took the latest step
    map,     \* BlockAllocator::map, the slice of BlockPages: index -> set bits
    addressor, \* BlockAllocator::addressor: mapped page -> frame
    locks,   \* the spin::RwLocks: who holds each as writer, upgradeable reader, reader
    task,    \* per execution context: the operation it is in, the point it has
             \* reached in it and its local variables
    rflags_if, \* RFLAGS.IF of the core that takes interrupts
    tlb      \* per core: the translations its TLB caches, page -> entry

vars == <<impl, nxe, array, mem, root, halted, last, installed, ops, cpu, map, addressor,
          locks, task, rflags_if, tlb>>

\* Frame indices callers pass: the Reserved frame, the MMIO frame and a frame
\* that is Free after construction.
FrameInputs == {0, 3, element_count - 1}

\* Attributes callers map with, re-map with (copy_by_map) and modify with.
AttrInputs == {RW, RX}
CopyAttrInputs == {RX, NoAttribs}
ModifyAttrInputs == {RW}

Ownerships == {"None", "Borrowed", "Locked"}

ModifyModes == {"Set", "Insert", "Remove", "Toggle"}

\* The memory map the Ledger is built from: frame 0 is firmware-reserved,
\* frame 3 is device memory, the rest is usable.
InitType(f) ==
    IF f = 0 THEN Reserved ELSE IF f = 3 THEN MMIOFrame ELSE Free

InitArray ==
    [s \in 0 .. (SectionCount - 1) |->
        [o \in 0 .. (ELEMENTS_PER_SECTION - 1) |->
            InitType(s * ELEMENTS_PER_SECTION + o)]]

Call(op, page, to, frame, own, attrs, mode, res) ==
    [op |-> op, page |-> page, to |-> to, frame |-> frame, own |-> own,
     attrs |-> attrs, mode |-> mode, res |-> res]

Cores == {1, 2}

\* The pages the two cores work on: two pages of one leaf table.
MCPages == {0, 1}

\* No cached translation, and a TLB that caches none of the pages the cores
\* work on.
NoTranslation == [frame |-> None, attrs |-> {}]
EmptyTlb == [p \in MCPages |-> NoTranslation]

\* A core between operations carries nothing.
NoHold == [page |-> None, frame |-> None, attribs |-> {}]

\* Nothing installed for a page since the last map, unmap or copy_by_map on it.
NoInstall == [frame |-> None, own |-> "-"]

\* Execution contexts that take locks: one per core where two cores run, the
\* interrupted code and the interrupt handler where one core takes interrupts.
Contexts == {1, 2}

\* A spin::RwLock nobody holds, and the locks of the memory subsystem:
\* PageManager::virtual_map, BitValueArray::array (the Ledger),
\* BlockAllocator::map and BlockAllocator::addressor.
Unlocked == [writer |-> None, upgraded |-> None, readers |-> {}]
NoLocks == [virtual_map |-> Unlocked, array |-> Unlocked, map |-> Unlocked,
            addressor |-> Unlocked]

\* A context between operations.
IdleTask == [op |-> "idle", pc |-> "idle", args |-> << >>, locals |-> << >>]

\* PageManager::new(.., None): lock_next() for the root table, which is zeroed.
Init ==
    /\ impl \in {"libkernel", "kernel"}
    /\ nxe \in BOOLEAN
    /\ array = lock_next(InitArray).array
    /\ root = lock_next(InitArray).index
    /\ mem = [f \in Frames |-> EmptyTable]
    /\ halted = FALSE
    /\ last = Call("new", None, None, None, "-", {}, "-", "Ok")
    /\ installed = [p \in Pages |-> NoInstall]
    /\ ops = 0
    /\ cpu = [pc |-> [c \in Cores |-> "idle"], hold |-> [c \in Cores |-> NoHold], by |-> 0]
    /\ map = << >>
    /\ addressor = << >>
    /\ locks = NoLocks
    /\ task = [c \in Contexts |-> IdleTask]
    /\ rflags_if = TRUE
    /\ tlb = [c \in Cores |-> EmptyTlb]

Cur == [mem |-> mem, array |-> array, root |-> root]

state(f) == get(array, f)

\* Frames holding a page table of the address space.
TableFrames(st) ==
    LET l3 == { sub_table(st.mem, st.root, i) : i \in Indices } \ {None}
        l2 == { sub_table(st.mem, t, i) : t \in l3, i \in Indices } \ {None}
        l1 == { sub_table(st.mem, t, i) : t \in l2, i \in Indices } \ {None}
    IN  {st.root} \cup l3 \cup l2 \cup l1

\* The frame an unmap of page would hand to free / drop.
ReleasedBy(st, page) ==
    LET e == get_page_entry(st, page)
    IN  IF e.found THEN EntryAt(st.mem, e).frame ELSE None

\* The kernel runs, and the model issues at most MaxOps operations.
Running == ~halted /\ ops < MaxOps

\* The attributes copy_by_map is to install: new_attribs when supplied, else a.
CopiedAttribs(new_attribs, a) == IF new_attribs = NoAttribs THEN a ELSE new_attribs

\* The history after a map, unmap or copy_by_map call targeting the pages ps.
Forget(ps) == [p \in Pages |-> IF p \in ps THEN NoInstall ELSE installed[p]]

\* The history after such a call wrote frame and attribs to the entry of page,
\* acquiring the frame as own says: an install when the entry is present.
Install(ps, page, frame, own, attribs) ==
    IF "PRESENT" \in attribs
    THEN [Forget(ps) EXCEPT ![page] = [frame |-> frame, own |-> own]]
    ELSE Forget(ps)

\* The frame the latest map of page installed with Locked ownership, if that
\* install is still the latest call on the page.
LockedInstall(page) ==
    IF installed[page].own = "Locked" THEN installed[page].frame ELSE None

\* The step of an operation whose outcome is o; inst is the history it leaves
\* when it succeeds, touched the pages it targets.
Apply(o, call, touched, inst) ==
    /\ mem' = o.mem
    /\ array' = o.array
    /\ halted' = (o.res = "panic")
    /\ last' = [call EXCEPT !.res = o.res]
    /\ installed' = IF o.res = "Ok" THEN inst ELSE Forget(touched)
    /\ ops' = ops + 1
    /\ UNCHANGED <<impl, nxe, root, cpu, map, addressor, locks, task, rflags_if, tlb>>

(* ------------------------------------------------------------------ *)
(* Operations of the ownership-mode PageManager                        *)
(* ------------------------------------------------------------------ *)

Map(page, frame_index, ownership, attribs) ==
    /\ Running /\ impl = "libkernel"
    /\ ownership = "Borrowed" => state(frame_index).n < MaxBorrow
    /\ Apply(lk_map(Cur, page, frame_index, ownership, attribs),
             Call("map", page, None, frame_index, ownership, attribs, "-", "-"),
             {page}, Install({page}, page, frame_index, ownership, attribs))

\* The frames of page tables belong to the mapper: no caller releases them.
Unmap(page, ownership) ==
    /\ Running /\ impl = "libkernel"
    /\ ownership # "None" => ReleasedBy(Cur, page) \notin TableFrames(Cur)
    /\ Apply(lk_unmap(Cur, page, ownership),
             Call("unmap", page, None, LockedInstall(page), ownership, {}, "-", "-"),
             {page}, Forget({page}))

CopyByMap(unmap_from, map_to, new_attribs) ==
    /\ Running /\ impl = "libkernel"
    /\ Apply(lk_copy_by_map(Cur, unmap_from, map_to, new_attribs),
             Call("copy_by_map", unmap_from, map_to, ReleasedBy(Cur, unmap_from), "-",
                  new_attribs, "-", "-"),
             {unmap_from, map_to},
             Install({unmap_from, map_to}, map_to, ReleasedBy(Cur, unmap_from), "None",
                     CopiedAttribs(new_attribs, get_page_attributes(Cur, unmap_from))))

AutoMap(page, attribs) ==
    /\ Running /\ impl = "libkernel"
    /\ Apply(lk_auto_map(Cur, page, attribs),
             Call("auto_map", page, None, lock_next(array).index, "-", attribs, "-", "-"),
             {page}, Install({page}, page, lock_next(array).index, "None", attribs))

IdentityMap(page, attribs) ==
    /\ Running /\ impl = "libkernel"
    /\ Apply(identity_map(Cur, page, attribs),
             Call("identity_map", page, None, page, "-", attribs, "-", "-"),
             {page}, Install({page}, page, page, "None", attribs))

SetPageAttribs(page, attributes, modify_mode) ==
    /\ Running /\ impl = "libkernel"
    /\ Apply(lk_set_page_attribs(Cur, page, attributes, modify_mode, nxe),
             Call("set_page_attributes", page, None, None, "-", attributes,
                  modify_mode, "-"),
             {}, installed)

(* ------------------------------------------------------------------ *)
(* Operations of the lock_frame PageManager                            *)
(* ------------------------------------------------------------------ *)

KMap(page, frame_index, lock_frame, attributes) ==
    /\ Running /\ impl = "kernel"
    /\ Apply(k_map(Cur, page, frame_index, lock_frame, attributes, nxe),
             Call("map", page, None, frame_index,
                  IF lock_frame THEN "Locked" ELSE "None", attributes, "-", "-"),
             {page},
             Install({page}, page, frame_index, IF lock_frame THEN "Locked" ELSE "None",
                     attributes))

KUnmap(page, free_frame) ==
    /\ Running /\ impl = "kernel"
    /\ free_frame => ReleasedBy(Cur, page) \notin TableFrames(Cur)
    /\ Apply(k_unmap(Cur, page, free_frame, nxe),
             Call("unmap", page, None, LockedInstall(page),
                  IF free_frame THEN "Locked" ELSE "None", {}, "-", "-"),
             {page}, Forget({page}))

KCopyByMap(unmap_from, map_to, new_attribs) ==
    /\ Running /\ impl = "kernel"
    /\ Apply(k_copy_by_map(Cur, unmap_from, map_to, new_attribs, nxe),
             Call("copy_by_map", unmap_from, map_to, ReleasedBy(Cur, unmap_from), "-",
                  new_attribs, "-", "-"),
             {unmap_from, map_to},
             Install({unmap_from, map_to}, map_to, ReleasedBy(Cur, unmap_from), "None",
                     CopiedAttribs(new_attribs, get_page_attributes(Cur, unmap_from))))

KAutoMap(page, attribs) ==
    /\ Running /\ impl = "kernel"
    /\ Apply(k_auto_map(Cur, page, attribs, nxe),
             Call("auto_map", page, None, lock_next(array).index, "-", attribs, "-", "-"),
             {page}, Install({page}, page, lock_next(array).index, "None", attribs))

KSetPageAttributes(page, attributes, modify_mode) ==
    /\ Running /\ impl = "kernel"
    /\ Apply(k_set_page_attributes(Cur, page, attributes, modify_mode, nxe),
             Call("set_page_attributes", page, None, None, "-", attributes,
                  modify_mode, "-"),
             {}, installed)

MapMmio(page, frame_index) ==
    /\ Running /\ impl = "kernel"
    /\ Apply(map_mmio(Cur, page, frame_index, nxe),
             Call("map_mmio", page, None, frame_index, "-", MMIO, "-", "-"),
             IF is_mapped(Cur, page) THEN {} ELSE {page},
             IF is_mapped(Cur, page)
             THEN installed
             ELSE Install({page}, page, frame_index, "None", MMIO))

(* ------------------------------------------------------------------ *)
(* Operations of the Ledger called directly                            *)
(* ------------------------------------------------------------------ *)

LedgerStep(r, op, index) ==
    /\ array' = r.array
    /\ last' = Call(op, None, None, index, "-", {}, "-", IF r.ok THEN "Ok" ELSE r.err)
    /\ ops' = ops + 1
    /\ UNCHANGED <<impl, nxe, mem, root, halted, installed, cpu, map, addressor, locks, task, rflags_if, tlb>>

Lock(index) ==
    /\ Running
    /\ LedgerStep(lock(array, index), "lock", index)

FreeFrame(index) ==
    /\ Running
    /\ index \notin TableFrames(Cur)
    /\ LedgerStep(free(array, index), "free", index)

Borrow(index) ==
    /\ Running
    /\ state(index).n < MaxBorrow
    /\ LedgerStep(borrow(array, index), "borrow", index)

Drop(index) ==
    /\ Running
    /\ LedgerStep(drop(array, index), "drop", index)

LockNext ==
    /\ Running
    /\ LET r == lock_next(array)
       IN  /\ array' = r.array
           /\ last' = Call("lock_next", None, None, r.index, "-", {}, "-",
                           IF r.index = None THEN "OutOfMemory" ELSE "Ok")
           /\ ops' = ops + 1
           /\ UNCHANGED <<impl, nxe, mem, root, halted, installed, cpu, map, addressor, locks, task, rflags_if, tlb>>

Next ==
    \/ \E p \in Pages, f \in FrameInputs, o \in Ownerships, a \in AttrInputs :
          Map(p, f, o, a)
    \/ \E p \in Pages, o \in Ownerships : Unmap(p, o)
    \/ \E p \in Pages, q \in Pages, a \in CopyAttrInputs : CopyByMap(p, q, a)
    \/ \E p \in Pages, a \in AttrInputs : AutoMap(p, a)
    \/ \E p \in Pages, a \in AttrInputs : IdentityMap(p, a)
    \/ \E p \in Pages, a \in ModifyAttrInputs, m \in ModifyModes : SetPageAttribs(p, a, m)
    \/ \E p \in Pages, f \in FrameInputs, l \in BOOLEAN, a \in AttrInputs :
          KMap(p, f, l, a)
    \/ \E p \in Pages, l \in BOOLEAN : KUnmap(p, l)
    \/ \E p \in Pages, q \in Pages, a \in CopyAttrInputs : KCopyByMap(p, q, a)
    \/ \E p \in Pages, a \in AttrInputs : KAutoMap(p, a)
    \/ \E p \in Pages, a \in ModifyAttrInputs, m \in ModifyModes :
          KSetPageAttributes(p, a, m)
    \/ \E p \in Pages, f \in FrameInputs : MapMmio(p, f)
    \/ \E f \in FrameInputs : Lock(f)
    \/ \E f \in FrameInputs : FreeFrame(f)
    \/ \E f \in FrameInputs : Borrow(f)
    \/ \E f \in FrameInputs : Drop(f)
    \/ LockNext

Spec == Init /\ [][Next]_vars

(* ------------------------------------------------------------------ *)
(* Two cores on one ownership-mode PageManager                         *)
(* ------------------------------------------------------------------ *)

\* A step is one critical section: the spin::RwLock of the page tables and the
\* lock of the Ledger are each held for one section and released after it.

\* Core c is between operations and may start one.
MCRunning(c) == ~halted /\ ops < MaxSteps /\ cpu.pc[c] = "idle"

\* The step of core c that leaves it at pc2 holding hold2.
MCStep(c, pc2, hold2, mem2, array2, call) ==
    /\ mem' = mem2
    /\ array' = array2
    /\ halted' = (call.res = "panic")
    /\ last' = call
    /\ cpu' = [pc |-> [cpu.pc EXCEPT ![c] = pc2],
               hold |-> [cpu.hold EXCEPT ![c] = hold2],
               by |-> c]
    /\ ops' = ops + 1
    /\ UNCHANGED <<impl, nxe, root, installed, map, addressor, locks, task, rflags_if, tlb>>

\* map with Locked or Borrowed, first section: the frame is acquired from the Ledger.
MCMapAcquire(c, page, frame_index, ownership, attribs) ==
    /\ MCRunning(c)
    /\ ownership # "None"
    /\ LET acq == lk_acquire(array, frame_index, ownership)
       IN  IF acq.ok
           THEN MCStep(c, "acquired",
                       [page |-> page, frame |-> frame_index, attribs |-> attribs],
                       mem, acq.array,
                       Call("map", page, None, frame_index, ownership, attribs, "-", "-"))
           ELSE MCStep(c, "idle", NoHold, mem, array,
                       Call("map", page, None, frame_index, ownership, attribs, "-",
                            "FrameError"))

\* map, the section under the write lock: the entry is created and set. It is
\* the whole of a map call with FrameOwnership::None (core idle, h the call's
\* arguments), the rest of a map call that acquired its frame, and the
\* self.map(map_to, frame_index, None, attribs) that ends copy_by_map.
MCMapInstall(c, h) ==
    /\ ~halted
    /\ IF cpu.pc[c] = "idle" THEN ops < MaxSteps /\ h # NoHold ELSE h = cpu.hold[c]
    /\ LET o == lk_map(Cur, h.page, h.frame, "None", h.attribs)
       IN  MCStep(c, "idle", NoHold, o.mem, o.array,
                  Call(IF cpu.pc[c] = "copied" THEN "copy_by_map" ELSE "map",
                       IF cpu.pc[c] = "copied" THEN None ELSE h.page,
                       IF cpu.pc[c] = "copied" THEN h.page ELSE None,
                       h.frame, IF cpu.pc[c] = "idle" THEN "None" ELSE "-",
                       h.attribs, "-", o.res))

\* unmap: one section under the write lock.
MCUnmap(c, page, ownership) ==
    /\ MCRunning(c)
    /\ ownership # "None" => ReleasedBy(Cur, page) \notin TableFrames(Cur)
    /\ LET o == lk_unmap(Cur, page, ownership)
       IN  MCStep(c, "idle", NoHold, o.mem, o.array,
                  Call("unmap", page, None, None, ownership, {}, "-", o.res))

\* get_mapped_to: one section under the read lock.
MCGetMappedTo(c, page) ==
    /\ MCRunning(c)
    /\ MCStep(c, "idle", NoHold, mem, array,
              Call("get_mapped_to", page, None, lk_get_mapped_to(Cur, page), "-", {},
                   "-", "Ok"))

\* copy_by_map, first section: the source entry is read and cleared under the
\* write lock, which is released at the end of the block.
MCCopyTake(c, unmap_from, map_to, new_attribs) ==
    /\ MCRunning(c)
    /\ LET t == lk_copy_take(Cur, unmap_from, new_attribs)
       IN  IF t.found
           THEN MCStep(c, "copied",
                       [page |-> map_to, frame |-> t.frame_index, attribs |-> t.attribs],
                       t.mem, array,
                       Call("copy_by_map", unmap_from, map_to, t.frame_index, "-",
                            new_attribs, "-", "-"))
           ELSE MCStep(c, "idle", NoHold, mem, array,
                       Call("copy_by_map", unmap_from, map_to, None, "-", new_attribs,
                            "-", "NotMapped"))

\* What MCMapInstall is called with: the arguments core c holds between two
\* sections, or those of a new map call with FrameOwnership::None.
MCMapInputs(c) ==
    {cpu.hold[c]} \cup
    {[page |-> p, frame |-> element_count - 1, attribs |-> RW] : p \in MCPages}

InitMC == Init /\ impl = "libkernel" /\ nxe

NextMC ==
    \E c \in Cores :
        \/ \E p \in MCPages : MCGetMappedTo(c, p)
        \/ \E p \in MCPages : MCMapAcquire(c, p, element_count - 1, "Locked", RW)
        \/ \E h \in MCMapInputs(c) : MCMapInstall(c, h)
        \/ \E p \in MCPages, o \in {"None", "Locked"} : MCUnmap(c, p, o)
        \/ \E p \in MCPages, a \in CopyAttrInputs :
              \E q \in MCPages \ {p} : MCCopyTake(c, p, q, a)

SpecMC == InitMC /\ [][NextMC]_vars

(* ------------------------------------------------------------------ *)
(* Both generations behind one interface                               *)
(* ------------------------------------------------------------------ *)

\* PageManager::map of the running generation; lock_frame is ownership = Locked.
PM_map(st, page, frame_index, ownership, attribs) ==
    IF impl = "libkernel"
    THEN lk_map(st, page, frame_index, ownership, attribs)
    ELSE k_map(st, page, frame_index, ownership = "Locked", attribs, nxe)

\* PageManager::unmap of the running generation; free_frame is ownership = Locked.
PM_unmap(st, page, ownership) ==
    IF impl = "libkernel"
    THEN lk_unmap(st, page, ownership)
    ELSE k_unmap(st, page, ownership = "Locked", nxe)

\* PageManager::copy_by_map of the running generation.
PM_copy_by_map(st, unmap_from, map_to, new_attribs) ==
    IF impl = "libkernel"
    THEN lk_copy_by_map(st, unmap_from, map_to, new_attribs)
    ELSE k_copy_by_map(st, unmap_from, map_to, new_attribs, nxe)

\* PageManager::auto_map of the running generation.
PM_auto_map(st, page, attribs) ==
    IF impl = "libkernel"
    THEN lk_auto_map(st, page, attribs)
    ELSE k_auto_map(st, page, attribs, nxe)

\* PageManager::get_mapped_to of the running generation.
PM_get_mapped_to(st, page) ==
    IF impl = "libkernel" THEN lk_get_mapped_to(st, page) ELSE k_get_mapped_to(st, page)

\* The ownerships the running generation's map and unmap take.
PM_Ownerships == IF impl = "libkernel" THEN Ownerships ELSE {"None", "Locked"}

(* ------------------------------------------------------------------ *)
(* Properties                                                          *)
(* ------------------------------------------------------------------ *)

\* C1: for every page p and every frame f that is Free, when map(p, f, Locked,
\* attrs) succeeds and the unmap(p, Locked) after it succeeds, p is not mapped
\* and f is Free again.
C1_MapUnmapRestores ==
    ~halted =>
        \A p \in Pages, f \in Frames, a \in AttrInputs :
            LET m == PM_map(Cur, p, f, "Locked", a)
                u == PM_unmap(m, p, "Locked")
            IN  (state(f) = Free /\ m.res = "Ok" /\ u.res = "Ok")
                    => ~is_mapped(u, p) /\ get(u.array, f) = Free

\* C1 happens: an unmap(p, Locked) has just succeeded on the frame that the
\* map(p, f, Locked) before it installed; p is unmapped and f is Free.
C1_Witness ==
    /\ last.op = "unmap" /\ last.own = "Locked" /\ last.res = "Ok"
    /\ last.frame # None
    /\ ~is_mapped(Cur, last.page)
    /\ state(last.frame) = Free

\* C2: free(f) fails with a typed error unless f is Locked, drop(f) fails with a
\* typed error unless f is Borrowed(n) with n >= 1, and the failing call leaves
\* the state of every frame as it was.
C2_ReleaseNeedsHeldFrame ==
    \A f \in Frames :
        /\ state(f) # Locked =>
               LET r == free(array, f)
               IN  ~r.ok /\ r.err \in FrameError /\ r.array = array
        /\ ~(state(f).k = "Borrowed" /\ state(f).n >= 1) =>
               LET r == drop(array, f)
               IN  ~r.ok /\ r.err \in FrameError /\ r.array = array

\* C2 happens: free was called on a frame that is not Locked and reported an error.
C2_Witness ==
    /\ last.op = "free" /\ last.res \in FrameError
    /\ state(last.frame) # Locked

\* One of the six transitions of a frame's state.
LegalChange(a, b) ==
    \/ a = Free /\ b = Locked
    \/ a = Locked /\ b = Free
    \/ a = Free /\ b = Borrowed(1)
    \/ a.k = "Borrowed" /\ b = Borrowed(a.n + 1)
    \/ a.k = "Borrowed" /\ a.n > 1 /\ b = Borrowed(a.n - 1)
    \/ a = Borrowed(1) /\ b = Free

\* C3 as stated: every change of a frame's state is one of Free->Locked,
\* Locked->Free, Free->Borrowed(1), Borrowed(n)->Borrowed(n+1),
\* Borrowed(n)->Borrowed(n-1), Borrowed(1)->Free, so that no frame enters or
\* leaves Reserved or MMIO.
C3_OnlySixTransitions ==
    [][\A f \in Frames :
          get(array', f) # get(array, f) => LegalChange(get(array, f), get(array', f))]_vars

\* C3 amended: every change of a frame's state is one of the six transitions or
\* the change to MMIO that map_mmio forces on the frame it is given; so no
\* frame leaves MMIO and a Reserved or MMIO frame never becomes Free.
C3_TransitionsOrMmio ==
    [][\A f \in Frames :
          get(array', f) # get(array, f) =>
              \/ LegalChange(get(array, f), get(array', f))
              \/ /\ last'.op = "map_mmio" /\ last'.frame = f
                 /\ get(array', f) = MMIOFrame]_vars

\* C3 happens: map_mmio has just run on a frame the memory map did not give as
\* MMIO, and the frame is MMIO now.
C3_Witness ==
    /\ last.op = "map_mmio"
    /\ InitType(last.frame) # MMIOFrame
    /\ state(last.frame) = MMIOFrame

\* C4: when frame f is Locked already, map(p2, f, Locked) returns
\* MapError::FrameError and writes no entry, creates no table and changes no
\* frame state.
C4_LockedFrameRefused ==
    ~halted =>
        \A p \in Pages, f \in Frames, a \in AttrInputs :
            state(f) = Locked =>
                LET m == PM_map(Cur, p, f, "Locked", a)
                IN  m.res = "FrameError" /\ m.mem = mem /\ m.array = array

\* C4 happens: a map(p2, f, Locked) of a Locked frame has just returned FrameError.
C4_Witness ==
    /\ last.op = "map" /\ last.own = "Locked" /\ last.res = "FrameError"
    /\ state(last.frame) = Locked

\* C5 as stated: unmap(p, ownership) of a page that is not mapped returns
\* NotMapped, changes no entry and no frame state, releases no frame and does
\* not halt.
C5_UnmapOfUnmappedPage ==
    ~halted =>
        \A p \in Pages, o \in PM_Ownerships :
            ~is_mapped(Cur, p) =>
                LET u == PM_unmap(Cur, p, o)
                IN  u.res = "NotMapped" /\ u.mem = mem /\ u.array = array

C7_CopyByMapMovesMapping ==
    ~halted =>
        \A from \in Pages, na \in CopyAttrInputs : \A to \in Pages \ {from} :
            LET c == PM_copy_by_map(Cur, from, to, na)
                f == ReleasedBy(Cur, from)
                a == get_page_attributes(Cur, from)
            IN  IF is_mapped(Cur, from)
                THEN c.res = "panic" \/
                     /\ c.res = "Ok"
                     /\ is_mapped(c, to)
                     /\ ReleasedBy(c, to) = f
                     /\ get_page_attributes(c, to) = CopiedAttribs(na, a)
                     /\ ~is_mapped(c, from)
                     /\ get(c.array, f) = state(f)
                ELSE /\ c.res = "NotMapped"
                     /\ get_page_entry(Cur, to).found =>
                            EntryAt(c.mem, get_page_entry(Cur, to)) =
                                EntryAt(mem, get_page_entry(Cur, to))

\* C8 as stated: the ownership-mode copy_by_map is atomic: while a core is
\* between clearing the source entry and installing the destination entry, no
\* other core executes a map, an unmap or a query on the Mapper.
C8_CopyByMapAtomic ==
    \A c \in Cores : cpu.pc[c] = "copied" => cpu.by = c

\* The frames holding tables that the outcome o created.
NewTableFrames(o) == TableFrames(o) \ TableFrames(Cur)

StoredAttribs(a) ==
    IF impl = "kernel" /\ ~nxe THEN a \ {"NO_EXECUTE"} ELSE a

C10_IdentityMapKeepsState ==
    (~halted /\ impl = "libkernel") =>
        \A i \in Frames, a \in AttrInputs :
            LET m == identity_map(Cur, i, a)
            IN  m.res = "Ok" =>
                    /\ lk_get_mapped_to(m, i) = i
                    /\ get(m.array, i) = state(i)

\* C10 amended: as C10, but a Free frame i that the call itself takes for a
\* new intermediate table is Locked afterwards.
C10_IdentityMapKeepsStateOrTable ==
    (~halted /\ impl = "libkernel") =>
        \A i \in Frames, a \in AttrInputs :
            LET m == identity_map(Cur, i, a)
            IN  m.res = "Ok" =>
                    /\ lk_get_mapped_to(m, i) = i
                    /\ \/ get(m.array, i) = state(i)
                       \/ /\ state(i) = Free /\ get(m.array, i) = Locked
                          /\ i \in NewTableFrames(m)

\* C10 happens: identity_map of the page of the Reserved frame has just
\* succeeded; the page answers its own index and the frame is still Reserved.
C10_Witness ==
    /\ last.op = "identity_map" /\ last.res = "Ok"
    /\ InitType(last.page) = Reserved
    /\ lk_get_mapped_to(Cur, last.page) = last.page
    /\ state(last.page) = Reserved

(* ------------------------------------------------------------------ *)
(* C11: the no-execute bit on a CPU without NXE                        *)
(* ------------------------------------------------------------------ *)

\* PageManager::set_page_attributes / set_page_attribs of the running generation.
PM_set_page_attributes(st, page, attributes, modify_mode) ==
    IF impl = "libkernel"
    THEN lk_set_page_attribs(st, page, attributes, modify_mode, nxe)
    ELSE k_set_page_attributes(st, page, attributes, modify_mode, nxe)

\* C11 as stated: with EFER.NXE clear, after set_page_attributes returns, for
\* every modify mode and every requested attribute set, the NO_EXECUTE bit of
\* the entry is clear and the call reports no error.
C11_NoExecuteClearedWithoutNxe ==
    (~halted /\ ~nxe) =>
        \A p \in Pages, a \in AttrInputs \cup {{"NO_EXECUTE"}, {"WRITABLE"}},
           m \in ModifyModes :
            LET o == PM_set_page_attributes(Cur, p, a, m)
            IN  /\ o.res = "Ok"
                /\ get_page_entry(o, p).found =>
                       "NO_EXECUTE" \notin get_page_attributes(o, p)

(* ------------------------------------------------------------------ *)
(* C12: lock_next                                                      *)
(* ------------------------------------------------------------------ *)

MaxWalks == 3

\* PageDepth::current() without LA57: the depth of the root cell.
PAGING_LEVELS == 4

\* PageDepth: min() is the leaf, the root cell is the maximum.
PageDepths == 0 .. PAGING_LEVELS

\* Number of pages one entry of a table of the given depth spans
\* (1 << ((depth - 1) * table_index_shift)).
RECURSIVE EntrySpan(_)
EntrySpan(depth) == IF depth <= 1 THEN 1 ELSE TABLE_SIZE * EntrySpan(depth - 1)

\* The lowest index field whatever the depth.
entry_index_low(depth, page) == page % TABLE_SIZE
\* get_sub_entry_ptr: the index of page in the table a cell of this depth points at.
entry_index(depth, page) == (page \div EntrySpan(depth)) % TABLE_SIZE

\* TableEntry::is_present, TableEntry::is_huge.
is_present(entry) == "PRESENT" \in entry.attrs
is_huge_never(entry) == FALSE
is_huge(entry) == "HUGE" \in entry.attrs

\* The root cell's entry: it names the root table; it is kept outside the tables.
RootEntry(st) == [frame |-> st.root, attrs |-> PTE]
RootAt == [table |-> None, index |-> None]

\* The entry a cell wraps: the root entry or a slot of a table.
CellEntry(st, at) == IF at.table = None THEN RootEntry(st) ELSE st.mem[at.table][at.index]

\* PMM.next_frame(): the next Free frame of the Ledger, Locked for the caller.
next_frame(ledger) == lock_next(ledger)

\* with_entry that never tests the entry it descends into.
RECURSIVE with_entry_unchecked(_, _, _, _, _)
with_entry_unchecked(st, depth, at, page, to_depth) ==
    IF depth = to_depth
    THEN [res |-> "Ok", at |-> at]
    ELSE IF depth < to_depth
    THEN [res |-> "panic", at |-> at]
    ELSE IF is_huge(CellEntry(st, at))
    THEN [res |-> "HugePage", at |-> at]
    ELSE with_entry_unchecked(st, depth - 1,
             [table |-> CellEntry(st, at).frame, index |-> entry_index(depth, page)],
             page, to_depth)

\* TableEntryCell::with_entry / with_entry_mut on the cell of the given depth
\* wrapping the entry at `at`: the outcome and the place of the entry yielded.
RECURSIVE with_entry(_, _, _, _, _)
with_entry(st, depth, at, page, to_depth) ==
    IF depth = to_depth
    THEN [res |-> "Ok", at |-> at]
    ELSE IF depth < to_depth
    THEN [res |-> "panic", at |-> at]
    ELSE IF is_huge(CellEntry(st, at))
    THEN [res |-> "HugePage", at |-> at]
    ELSE LET sub == [table |-> CellEntry(st, at).frame,
                     index |-> entry_index(depth, page)]
         IN  IF is_present(CellEntry(st, sub))
             THEN with_entry(st, depth - 1, sub, page, to_depth)
             ELSE [res |-> "NotMapped", at |-> sub]

\* The new table's frame left as it was found.
write_bytes_skipped(memory, frame) == memory

\* core::ptr::write_bytes(Hhdm::offset(frame), 0x0, page_size()): the frame of
\* a new table is cleared.
write_bytes_zero(memory, frame) == [memory EXCEPT ![frame] = EmptyTable]

\* New tables entered for the supervisor only.
new_table_flags_supervisor(depth) == {"PRESENT", "WRITABLE"}
\* with_entry_create, the flags of the entry of a new table:
\* TableEntryFlags::PTE, and USER inserted unless the cell is of PageDepth::min().
new_table_flags(depth) == IF depth # 0 THEN PTE \cup {"USER"} ELSE PTE

\* TableEntryCell::with_entry_create: as the walk above, but a cell whose
\* entry is absent gets a zeroed frame from next_frame and becomes PTE | USER
\* before the descent goes on; AllocError when there is no frame.
RECURSIVE with_entry_create(_, _, _, _, _)
with_entry_create(st, depth, at, page, to_depth) ==
    IF depth = to_depth
    THEN [res |-> "Ok", at |-> at, mem |-> st.mem, array |-> st.array]
    ELSE IF depth < to_depth
    THEN [res |-> "panic", at |-> at, mem |-> st.mem, array |-> st.array]
    ELSE IF is_huge(CellEntry(st, at))
    THEN [res |-> "HugePage", at |-> at, mem |-> st.mem, array |-> st.array]
    ELSE IF is_present(CellEntry(st, at))
    THEN with_entry_create(st, depth - 1,
             [table |-> CellEntry(st, at).frame, index |-> entry_index(depth, page)],
             page, to_depth)
    ELSE IF CellEntry(st, at).frame # 0
    THEN [res |-> "panic", at |-> at, mem |-> st.mem, array |-> st.array]
    ELSE LET r == next_frame(st.array)
         IN  IF r.index = None
             THEN [res |-> "AllocError", at |-> at, mem |-> st.mem, array |-> st.array]
             ELSE with_entry_create(
                      [root |-> st.root, array |-> r.array,
                       mem |-> [write_bytes_zero(st.mem, r.index) EXCEPT
                           ![at.table][at.index] = [frame |-> r.index,
                                                    attrs |-> new_table_flags(depth)]]],
                      depth - 1,
                      [table |-> r.index, index |-> entry_index(depth, page)],
                      page, to_depth)

\* Pages the walker is called with: two pages of one leaf table and one page
\* of the next leaf table.
WPages == {0, 1, TABLE_SIZE}

\* Depths the walker is asked to stop at: the leaf and the level above it.
WDepths == {0, 1}

\* The frame callers install in the entries they are handed.
WFrame == element_count - 1

\* What memory that was never written holds: entries with every bit pattern
\* are possible; this one reads as a present table entry.
JunkTable == [i \in Indices |-> [frame |-> WFrame, attrs |-> RW]]

\* A fresh address space: the root table is a zeroed frame from next_frame and
\* nothing else of memory has been written.
InitW ==
    /\ impl = "walker"
    /\ nxe = TRUE
    /\ array = next_frame(InitArray).array
    /\ root = next_frame(InitArray).index
    /\ mem = [f \in Frames |->
                 IF f = next_frame(InitArray).index THEN EmptyTable ELSE JunkTable]
    /\ halted = FALSE
    /\ last = Call("new", None, None, None, "-", {}, "-", "Ok")
    /\ installed = [p \in Pages |-> NoInstall]
    /\ ops = 0
    /\ cpu = [pc |-> [c \in Cores |-> "idle"], hold |-> [c \in Cores |-> NoHold], by |-> 0]
    /\ map = << >>
    /\ addressor = << >>
    /\ locks = NoLocks
    /\ task = [c \in Contexts |-> IdleTask]
    /\ rflags_if = TRUE
    /\ tlb = [c \in Cores |-> EmptyTlb]

WRunning == ~halted /\ ops < MaxWalks

\* The step of a walker call.
WStep(mem2, array2, call) ==
    /\ mem' = mem2
    /\ array' = array2
    /\ halted' = (call.res = "panic")
    /\ last' = call
    /\ ops' = ops + 1
    /\ UNCHANGED <<impl, nxe, root, installed, cpu, map, addressor, locks, task, rflags_if, tlb>>

\* The call record of a walk: the entry it yielded, when it yielded one.
WalkCall(op, st, page, to_depth, r) ==
    Call(op, page, to_depth,
         IF r.res = "Ok" THEN CellEntry(st, r.at).frame ELSE None, "-",
         IF r.res = "Ok" THEN CellEntry(st, r.at).attrs ELSE {}, "-", r.res)

\* with_entry(page, Some(to_depth), |entry| *entry) from the root cell.
WithEntry(page, to_depth) ==
    /\ WRunning
    /\ LET r == with_entry(Cur, PAGING_LEVELS, RootAt, page, to_depth)
       IN  WStep(mem, array, WalkCall("with_entry", Cur, page, to_depth, r))

\* with_entry_mut(page, Some(to_depth), |entry| entry.clear()) from the root cell.
WithEntryMut(page, to_depth) ==
    /\ WRunning
    /\ LET r == with_entry(Cur, PAGING_LEVELS, RootAt, page, to_depth)
       IN  WStep(IF r.res = "Ok"
                 THEN [mem EXCEPT ![r.at.table][r.at.index] = empty]
                 ELSE mem,
                 array, WalkCall("with_entry_mut", Cur, page, to_depth, r))

\* with_entry_create(page, to_depth, with_fn) from the root cell; with_fn
\* leaves the entry (NoAttribs) or sets it to WFrame with the given flags.
WithEntryCreate(page, to_depth, attrs) ==
    /\ WRunning
    /\ attrs # NoAttribs => (("HUGE" \in attrs) <=> (to_depth > 0))
    /\ LET c == with_entry_create(Cur, PAGING_LEVELS, RootAt, page, to_depth)
       IN  WStep(IF c.res = "Ok" /\ attrs # NoAttribs
                 THEN [c.mem EXCEPT ![c.at.table][c.at.index] =
                          [frame |-> WFrame, attrs |-> attrs]]
                 ELSE c.mem,
                 c.array,
                 WalkCall("with_entry_create", [mem |-> c.mem, array |-> c.array,
                                                root |-> root], page, to_depth, c))

\* Another part of the kernel takes a frame: PMM.next_frame().
NextFrame ==
    /\ WRunning
    /\ LET r == next_frame(array)
       IN  WStep(mem, r.array,
                 Call("next_frame", None, None, r.index, "-", {}, "-",
                      IF r.index = None THEN "AllocError" ELSE "Ok"))

NextW ==
    \/ \E p \in WPages, d \in WDepths : WithEntry(p, d)
    \/ \E p \in WPages, d \in WDepths : WithEntryMut(p, d)
    \/ \E p \in WPages, d \in WDepths, a \in {NoAttribs, RW, RW \cup {"HUGE"}} :
          WithEntryCreate(p, d, a)
    \/ NextFrame

SpecW == InitW /\ [][NextW]_vars

(* ------------------------------------------------------------------ *)
(* C13 - C15: the walks                                                *)
(* ------------------------------------------------------------------ *)

\* The place of the entry of the given depth on the path of page, reading the
\* frame fields from the root down.
RECURSIVE PathAt(_, _)
PathAt(page, depth) ==
    IF depth >= PAGING_LEVELS
    THEN RootAt
    ELSE [table |-> CellEntry(Cur, PathAt(page, depth + 1)).frame,
          index |-> entry_index(depth + 1, page)]

\* The flags of that entry.
PathFlags(page, depth) == CellEntry(Cur, PathAt(page, depth)).attrs

\* The walk gets as far as the entry of the given depth: every entry above it
\* is present (the root always is) and none of them is huge.
Reaches(page, depth) ==
    \A d \in (depth + 1) .. PAGING_LEVELS :
        /\ d < PAGING_LEVELS => "PRESENT" \in PathFlags(page, d)
        /\ "HUGE" \notin PathFlags(page, d)

\* C13: the read walk from the root to stop_depth returns NotMapped when an
\* entry on the path below the root, the one at stop_depth included, is
\* absent, HugePage when a present entry strictly above stop_depth is huge,
\* and otherwise yields the entry at stop_depth, huge or not.
C13_ReadWalkOutcome ==
    ~halted =>
        \A p \in WPages, s \in 0 .. (PAGING_LEVELS - 1) :
            LET r == with_entry(Cur, PAGING_LEVELS, RootAt, p, s)
                absent == \E d \in s .. (PAGING_LEVELS - 1) :
                              Reaches(p, d) /\ "PRESENT" \notin PathFlags(p, d)
                huge == \E d \in (s + 1) .. PAGING_LEVELS :
                            /\ Reaches(p, d)
                            /\ d < PAGING_LEVELS => "PRESENT" \in PathFlags(p, d)
                            /\ "HUGE" \in PathFlags(p, d)
            IN  /\ absent => r.res = "NotMapped"
                /\ huge => r.res = "HugePage"
                /\ (~absent /\ ~huge) => (r.res = "Ok" /\ r.at = PathAt(p, s))

\* C13 happens: a read walk to the depth above the leaf has just yielded a
\* present entry that is huge, and the walk to the leaf below it is refused
\* with HugePage.
C13_Witness ==
    /\ last.op = "with_entry" /\ last.res = "Ok" /\ last.to = 1
    /\ "HUGE" \in last.attrs /\ "PRESENT" \in last.attrs
    /\ with_entry(Cur, PAGING_LEVELS, RootAt, last.page, 0).res = "HugePage"
    /\ \E p \in WPages :
           with_entry(Cur, PAGING_LEVELS, RootAt, p, 0).res = "NotMapped"

\* The number of Free frames of the Ledger.
FreeCount(ledger) == Cardinality({ f \in Frames : get(ledger, f) = Free })

\* C14: on a fresh (empty) address space, for every page p, the read walk to
\* depth 0 returns NotMapped; read_or_create(p, 0) then succeeds when the
\* Ledger has the Free frames and yields a leaf entry of 64 zero bits; and the
\* read walk for p still returns NotMapped afterwards, the leaf not being
\* installed.
C14_FreshSpaceReadOrCreate ==
    (~halted /\ mem[root] = EmptyTable) =>
        \A p \in WPages :
            LET c == with_entry_create(Cur, PAGING_LEVELS, RootAt, p, 0)
                after == [mem |-> c.mem, array |-> c.array, root |-> root]
            IN  /\ with_entry(Cur, PAGING_LEVELS, RootAt, p, 0).res = "NotMapped"
                /\ FreeCount(array) >= PAGING_LEVELS - 1 =>
                       /\ c.res = "Ok"
                       /\ CellEntry(after, c.at) = [frame |-> 0, attrs |-> {}]
                       /\ with_entry(after, PAGING_LEVELS, RootAt, p, 0).res = "NotMapped"

\* C14 happens: the first call on a fresh address space was a read_or_create
\* to depth 0 that left the entry it was handed alone; the entry is zero and
\* the read walk for the page still answers NotMapped.
C14_Witness ==
    /\ ops = 1
    /\ last.op = "with_entry_create" /\ last.res = "Ok" /\ last.to = 0
    /\ last.frame = 0 /\ last.attrs = {}
    /\ mem[root] # EmptyTable
    /\ with_entry(Cur, PAGING_LEVELS, RootAt, last.page, 0).res = "NotMapped"

\* The number of tables read_or_create(page, stop_depth) has to create: one
\* for every level above stop_depth from the first absent entry down.
NeededTables(page, stop_depth) ==
    Cardinality({ d \in (stop_depth + 1) .. (PAGING_LEVELS - 1) :
                    \E a \in d .. (PAGING_LEVELS - 1) : "PRESENT" \notin PathFlags(page, a) })

MaxHeapOps == 3

\* The page size the heap divides, the literal 0x1000.
PAGE_BYTES == 4096

\* BlockPage::BLOCKS_PER, size_of::<u64>() * 8.
BLOCKS_PER == 64

\* BlockAllocator::BLOCK_SIZE.
BLOCK_SIZE == PAGE_BYTES \div BLOCKS_PER

\* grow's BLOCKS_PER_MAP_PAGE, 8 bits per byte of one map page.
BLOCKS_PER_MAP_PAGE == 8 * PAGE_BYTES

\* BlockPages held by one page of the map, 0x1000 / size_of::<BlockPage>().
BLOCK_PAGES_PER_MAP_PAGE == PAGE_BYTES \div 8

\* A BlockPage's u64 is kept as the set of its set bit positions.
BlockPage_empty == {}
BlockPage_full == 0 .. (BLOCKS_PER - 1)
is_empty(block_page) == block_page = BlockPage_empty
is_full(block_page) == block_page = BlockPage_full

\* The slice's len(); the map is a function from 0 .. len - 1 to BlockPages.
len(blocks) == Cardinality(DOMAIN blocks)

\* libkernel::align_up_div.
align_up_div(value, alignment) == (value + (alignment - 1)) \div alignment

\* usize::next_power_of_two.
RECURSIVE next_power_of_two_from(_, _)
next_power_of_two_from(power, n) ==
    IF power >= n THEN power ELSE next_power_of_two_from(2 * power, n)
next_power_of_two(n) == next_power_of_two_from(1, n)

\* libkernel::U64_BIT_MASKS[index] << bit_offset: index + 1 low bits, shifted.
U64_BIT_MASKS_shl(index, bit_offset) ==
    { b \in BlockPage_full : bit_offset <= b /\ b <= bit_offset + index }

\* Pages of the allocator's address space: heap page i is Page::from_index(i),
\* page offset of the map is ALLOCATOR_BASE.forward(offset).
Page_from_index(index) == [base |-> "null", index |-> index]
ALLOCATOR_BASE_forward(offset) == [base |-> "ALLOCATOR_BASE", index |-> offset]

\* VirtualAddressor::map, unmap, translate_page and identity_map, on the
\* address space kept as a function from mapped pages to frames.
VirtualAddressor_map(space, page, frame) ==
    [p \in DOMAIN space \cup {page} |-> IF p = page THEN frame ELSE space[p]]
VirtualAddressor_unmap(space, page) ==
    [p \in DOMAIN space \ {page} |-> space[p]]
translate_page(space, page) ==
    IF page \in DOMAIN space THEN space[page] ELSE None
VirtualAddressor_identity_map(space, frame) ==
    VirtualAddressor_map(space, Page_from_index(frame), frame)

\* falloc's autolock() and free_frame(), the Ledger's lock_next and free.
autolock(ledger) == lock_next(ledger)
free_frame(ledger, frame) == free(ledger, frame)

\* The heap as the operations see it, and what an operation returns with it.
Heap(blocks, space, ledger) == [map |-> blocks, addressor |-> space, array |-> ledger]
HeapOut(res, hs, ptr, grows) ==
    [res |-> res, map |-> hs.map, addressor |-> hs.addressor, array |-> hs.array,
     ptr |-> ptr, grows |-> grows]

\* grow's loop over the new map pages: each is mapped to an autolocked frame,
\* expect("out of memory") panics when the Ledger has none.
RECURSIVE grow_map_pages(_, _, _)
RECURSIVE grow_map_page(_, _, _, _)
grow_map_page(hs, offset, new_page_offset, f) ==
    IF f.index = None
    THEN [res |-> "panic", hs |-> hs]
    ELSE grow_map_pages(
             Heap(hs.map,
                  VirtualAddressor_map(hs.addressor, ALLOCATOR_BASE_forward(offset), f.index),
                  f.array),
             offset + 1, new_page_offset)
grow_map_pages(hs, offset, new_page_offset) ==
    IF offset >= new_page_offset
    THEN [res |-> "Ok", hs |-> hs]
    ELSE grow_map_page(hs, offset, new_page_offset, autolock(hs.array))

\* A grow whose fill covers the whole new slice.
grow_fill_all(cur_map_len, new_map_len, m) ==
    IF m.res = "panic"
    THEN HeapOut("panic", m.hs, None, 0)
    ELSE HeapOut("Ok",
                 Heap([i \in 0 .. (new_map_len - 1) |-> BlockPage_empty],
                      m.hs.addressor, m.hs.array),
                 None, 1)

\* grow's new slice over the map pages m mapped: the BlockPages below
\* cur_map_len are the ones already there, the rest is filled with empty().
grow_fill(cur_map_len, new_map_len, m) ==
    IF m.res = "panic"
    THEN HeapOut("panic", m.hs, None, 0)
    ELSE HeapOut("Ok",
                 Heap([i \in 0 .. (new_map_len - 1) |->
                          IF i < cur_map_len THEN m.hs.map[i] ELSE BlockPage_empty],
                      m.hs.addressor, m.hs.array),
                 None, 1)

\* grow's cur_page_offset and new_page_offset.
cur_page_offset(cur_map_len) == (cur_map_len * BLOCKS_PER) \div BLOCKS_PER_MAP_PAGE
new_page_offset(cur_map_len, required_blocks) ==
    next_power_of_two(cur_page_offset(cur_map_len)
                      + align_up_div(required_blocks, BLOCKS_PER_MAP_PAGE))

\* grow(required_blocks).
grow(hs, required_blocks) ==
    IF required_blocks <= 0
    THEN HeapOut("panic", hs, None, 0)
    ELSE grow_fill(len(hs.map),
                   new_page_offset(len(hs.map), required_blocks) * BLOCK_PAGES_PER_MAP_PAGE,
                   grow_map_pages(hs, cur_page_offset(len(hs.map)),
                                  new_page_offset(len(hs.map), required_blocks)))

\* calculate_bit_fields: the bits of BlockPage map_index in block_index ..
\* end_block_index - 1; indexing U64_BIT_MASKS with bit_count - 1 panics for
\* a bit_count of zero.
calculate_bit_fields_to_page_end(map_index, end_block_index, block_index) ==
    LET bit_offset == block_index - map_index * BLOCKS_PER
    IN  [ok |-> TRUE,
         bit_count |-> BLOCKS_PER - bit_offset,
         bit_mask |-> U64_BIT_MASKS_shl(BLOCKS_PER - bit_offset - 1, bit_offset)]
calculate_bit_fields(map_index, end_block_index, block_index) ==
    LET traversed_blocks == map_index * BLOCKS_PER
        remaining_blocks == end_block_index - traversed_blocks
        bit_offset == block_index - traversed_blocks
        bit_count == (IF BLOCKS_PER < remaining_blocks THEN BLOCKS_PER
                      ELSE remaining_blocks) - bit_offset
    IN  [ok |-> bit_count >= 1,
         bit_count |-> bit_count,
         bit_mask |-> U64_BIT_MASKS_shl(bit_count - 1, bit_offset)]

\* alloc's loop over the bits of one BlockPage, as the value current_run has
\* once the bits 0 .. shift are done: zero at a set bit; past the last set bit
\* the run counts from the first block whose index is a multiple of
\* alignment, or goes on from the run the page was entered with when no bit
\* is set so far.
run_after(block_page, block_index, current_run, alignment, shift) ==
    LET set_bits == { b \in block_page : b <= shift }
        first_clear == IF set_bits = {} THEN 0
                       ELSE (CHOOSE b \in set_bits : \A x \in set_bits : x <= b) + 1
        first_start == first_clear
                       + ((alignment - ((block_index + first_clear) % alignment)) % alignment)
    IN  IF set_bits = {} /\ current_run > 0
        THEN current_run + shift + 1
        ELSE IF first_start > shift THEN 0 ELSE (shift + 1) - first_start

\* The bits at which the loop would break: current_run == size_in_blocks.
scan_hits(block_page, block_index, current_run, size_in_blocks, alignment) ==
    { s \in BlockPage_full :
        run_after(block_page, block_index, current_run, alignment, s) = size_in_blocks }

\* alloc's scan of one BlockPage that is not full: it breaks at the first bit
\* where current_run == size_in_blocks, block_index being one past that bit.
scan_bits_break(block_page, block_index, current_run, size_in_blocks, alignment, hits) ==
    IF hits = {}
    THEN [found |-> FALSE, block_index |-> block_index + BLOCKS_PER,
          current_run |-> run_after(block_page, block_index, current_run, alignment,
                                    BLOCKS_PER - 1)]
    ELSE [found |-> TRUE,
          block_index |-> block_index + (CHOOSE s \in hits : \A x \in hits : s <= x) + 1,
          current_run |-> size_in_blocks]
scan_bits(block_page, block_index, current_run, size_in_blocks, alignment) ==
    scan_bits_break(block_page, block_index, current_run, size_in_blocks, alignment,
                    scan_hits(block_page, block_index, current_run, size_in_blocks,
                              alignment))

\* alloc's scan of the map ('outer): a full BlockPage ends the run and is
\* stepped over, the others are scanned bit by bit.
RECURSIVE scan_map(_, _, _, _, _, _)
RECURSIVE scan_page(_, _, _, _, _)
scan_page(blocks, map_index, size_in_blocks, alignment, r) ==
    IF r.found THEN r
    ELSE scan_map(blocks, map_index + 1, r.block_index, r.current_run,
                  size_in_blocks, alignment)
scan_map(blocks, map_index, block_index, current_run, size_in_blocks, alignment) ==
    IF map_index >= len(blocks)
    THEN [found |-> FALSE, block_index |-> block_index, current_run |-> current_run]
    ELSE IF is_full(blocks[map_index])
         THEN scan_map(blocks, map_index + 1, block_index + BLOCKS_PER, 0,
                       size_in_blocks, alignment)
         ELSE scan_page(blocks, map_index, size_in_blocks, alignment,
                        scan_bits(blocks[map_index], block_index, current_run,
                                  size_in_blocks, alignment))

\* alloc's while loop: scan, and grow(size_in_blocks) until the run is found.
RECURSIVE alloc_find(_, _, _, _)
RECURSIVE alloc_found(_, _, _, _, _)
RECURSIVE alloc_grown(_, _, _, _)
alloc_grown(size_in_blocks, alignment, grows, g) ==
    IF g.res = "panic"
    THEN [res |-> "panic", hs |-> Heap(g.map, g.addressor, g.array),
          block_index |-> 0, current_run |-> 0, grows |-> grows]
    ELSE alloc_find(Heap(g.map, g.addressor, g.array), size_in_blocks, alignment, grows + 1)
alloc_found(hs, size_in_blocks, alignment, grows, r) ==
    IF r.current_run < size_in_blocks
    THEN alloc_grown(size_in_blocks, alignment, grows, grow(hs, size_in_blocks))
    ELSE [res |-> "Ok", hs |-> hs, block_index |-> r.block_index,
          current_run |-> r.current_run, grows |-> grows]
alloc_find(hs, size_in_blocks, alignment, grows) ==
    alloc_found(hs, size_in_blocks, alignment, grows,
                scan_map(hs.map, 0, 0, 0, size_in_blocks, alignment))

\* alloc's loop over the BlockPages of the run: the bits are set, and a
\* BlockPage that had none gets its page mapped to an autolocked frame.
RECURSIVE alloc_mark(_, _, _, _, _)
RECURSIVE alloc_mark_page(_, _, _, _, _, _, _)
alloc_mark_page(hs, map_index, end_map_index, end_block_index, block_index, c, f) ==
    IF ~c.ok \/ hs.map[map_index] \cap c.bit_mask # {}
    THEN [res |-> "panic", hs |-> hs]
    ELSE IF is_empty(hs.map[map_index]) /\ ~is_empty(hs.map[map_index] \cup c.bit_mask)
         THEN IF f.index = None
              THEN [res |-> "panic",
                    hs |-> Heap([hs.map EXCEPT ![map_index] = @ \cup c.bit_mask],
                                hs.addressor, hs.array)]
              ELSE alloc_mark(
                       Heap([hs.map EXCEPT ![map_index] = @ \cup c.bit_mask],
                            VirtualAddressor_map(hs.addressor,
                                                 Page_from_index(map_index), f.index),
                            f.array),
                       map_index + 1, end_map_index, end_block_index,
                       block_index + c.bit_count)
         ELSE alloc_mark(Heap([hs.map EXCEPT ![map_index] = @ \cup c.bit_mask],
                              hs.addressor, hs.array),
                         map_index + 1, end_map_index, end_block_index,
                         block_index + c.bit_count)
alloc_mark(hs, map_index, end_map_index, end_block_index, block_index) ==
    IF map_index >= end_map_index \/ map_index >= len(hs.map)
    THEN [res |-> "Ok", hs |-> hs]
    ELSE alloc_mark_page(hs, map_index, end_map_index, end_block_index, block_index,
                         calculate_bit_fields(map_index, end_block_index, block_index),
                         autolock(hs.array))

\* An alloc that searches without any alignment.
alloc_alignment_none(align) == 1

\* The alignment alloc searches with: layout.align() when it is a multiple of
\* BLOCK_SIZE, else BLOCK_SIZE.
alloc_alignment(align) == IF align % BLOCK_SIZE = 0 THEN align ELSE BLOCK_SIZE

\* An alloc returning the index of the first block as the address.
alloc_return_index(start_block_index, grows, m) ==
    HeapOut(m.res, m.hs, IF m.res = "Ok" THEN start_block_index ELSE None, grows)

\* alloc's return over the marked run m: the address of its first block.
alloc_return(start_block_index, grows, m) ==
    HeapOut(m.res, m.hs,
            IF m.res = "Ok" THEN start_block_index * BLOCK_SIZE ELSE None, grows)

\* alloc past its search r: the run is block_index - current_run .. block_index - 1.
alloc_fulfil(r) ==
    IF r.res = "panic"
    THEN HeapOut("panic", r.hs, None, r.grows)
    ELSE alloc_return(r.block_index - r.current_run, r.grows,
                      alloc_mark(r.hs, (r.block_index - r.current_run) \div BLOCKS_PER,
                                 align_up_div(r.block_index, BLOCKS_PER),
                                 r.block_index, r.block_index - r.current_run))

\* alloc(layout): the pointer to the first block of the run it claimed.
alloc(hs, size, align) ==
    alloc_fulfil(alloc_find(hs, (size + (BLOCK_SIZE - 1)) \div BLOCK_SIZE,
                            alloc_alignment(align), 0))

\* dealloc's loop over the BlockPages of the range: the bits are cleared, and
\* a BlockPage left without any has its frame freed and its page unmapped.
RECURSIVE dealloc_clear(_, _, _, _, _)
RECURSIVE dealloc_clear_page(_, _, _, _, _, _, _)
RECURSIVE dealloc_release(_, _, _, _, _, _, _)
dealloc_release_mapped(hs, map_index, end_map_index, end_block_index, block_index, frame, fr) ==
    IF frame = None \/ ~fr.ok
    THEN [res |-> "panic", hs |-> hs]
    ELSE dealloc_clear(Heap(hs.map, hs.addressor, fr.array),
                       map_index + 1, end_map_index, end_block_index, block_index)
dealloc_release(hs, map_index, end_map_index, end_block_index, block_index, frame, fr) ==
    IF frame = None \/ ~fr.ok
    THEN [res |-> "panic", hs |-> hs]
    ELSE dealloc_clear(
             Heap(hs.map,
                  VirtualAddressor_unmap(hs.addressor, Page_from_index(map_index)),
                  fr.array),
             map_index + 1, end_map_index, end_block_index, block_index)
dealloc_clear_page(hs, map_index, end_map_index, end_block_index, block_index, c, cleared) ==
    IF ~c.ok \/ hs.map[map_index] \cap c.bit_mask # c.bit_mask
    THEN [res |-> "panic", hs |-> hs]
    ELSE IF ~is_empty(hs.map[map_index]) /\ is_empty(cleared)
         THEN dealloc_release(
                  Heap([hs.map EXCEPT ![map_index] = cleared], hs.addressor, hs.array),
                  map_index, end_map_index, end_block_index, block_index + c.bit_count,
                  translate_page(hs.addressor, Page_from_index(map_index)),
                  free_frame(hs.array,
                             translate_page(hs.addressor, Page_from_index(map_index))))
         ELSE dealloc_clear(
                  Heap([hs.map EXCEPT ![map_index] = cleared], hs.addressor, hs.array),
                  map_index + 1, end_map_index, end_block_index, block_index + c.bit_count)
dealloc_clear(hs, map_index, end_map_index, end_block_index, block_index) ==
    IF map_index >= end_map_index \/ map_index >= len(hs.map)
    THEN [res |-> "Ok", hs |-> hs]
    ELSE dealloc_clear_page(
             hs, map_index, end_map_index, end_block_index, block_index,
             calculate_bit_fields(map_index, end_block_index, block_index),
             (hs.map[map_index]
                \ calculate_bit_fields(map_index, end_block_index, block_index).bit_mask)
             \cup (calculate_bit_fields(map_index, end_block_index, block_index).bit_mask
                     \ hs.map[map_index]))

\* dealloc's return.
dealloc_return(ptr, d) == HeapOut(d.res, d.hs, ptr, 0)

\* dealloc(ptr, size): the blocks ptr / BLOCK_SIZE .. + align_up_div(size, BLOCK_SIZE).
dealloc(hs, ptr, size) ==
    dealloc_return(ptr,
        dealloc_clear(hs, (ptr \div BLOCK_SIZE) \div BLOCKS_PER,
                      align_up_div((ptr \div BLOCK_SIZE) + align_up_div(size, BLOCK_SIZE),
                                   BLOCKS_PER),
                      (ptr \div BLOCK_SIZE) + align_up_div(size, BLOCK_SIZE),
                      ptr \div BLOCK_SIZE))

\* alloc_to's scan for size_in_frames consecutive empty BlockPages.
RECURSIVE alloc_to_scan(_, _, _, _)
alloc_to_scan(blocks, map_index, current_run, size_in_frames) ==
    IF map_index >= len(blocks)
    THEN None
    ELSE LET run == IF is_empty(blocks[map_index]) THEN current_run + 1 ELSE 0
         IN  IF run = size_in_frames
             THEN (map_index + 1) - run
             ELSE alloc_to_scan(blocks, map_index + 1, run, size_in_frames)

\* alloc_to's 'grow loop: scan, and grow until the run of pages is found.
RECURSIVE alloc_to_find(_, _, _)
RECURSIVE alloc_to_found(_, _, _, _)
RECURSIVE alloc_to_grown(_, _, _)
alloc_to_grown(size_in_frames, grows, g) ==
    IF g.res = "panic"
    THEN [res |-> "panic", hs |-> Heap(g.map, g.addressor, g.array),
          base_index |-> None, grows |-> grows]
    ELSE alloc_to_find(Heap(g.map, g.addressor, g.array), size_in_frames, grows + 1)
alloc_to_found(hs, size_in_frames, grows, base_index) ==
    IF base_index = None
    THEN alloc_to_grown(size_in_frames, grows, grow(hs, size_in_frames * BLOCKS_PER))
    ELSE [res |-> "Ok", hs |-> hs, base_index |-> base_index, grows |-> grows]
alloc_to_find(hs, size_in_frames, grows) ==
    alloc_to_found(hs, size_in_frames, grows, alloc_to_scan(hs.map, 0, 0, size_in_frames))

\* The BlockPages alloc_to takes: start_index .. start_index + size_in_frames - 1.
alloc_to_run(blocks, start_index, size_in_frames) ==
    { i \in DOMAIN blocks : start_index <= i /\ i < start_index + size_in_frames }

\* An alloc_to that maps every page of the run to the first frame.
alloc_to_set_first(hs, frame_base_index, start_index, run) ==
    Heap([i \in DOMAIN hs.map |-> IF i \in run THEN BlockPage_full ELSE hs.map[i]],
         [p \in DOMAIN hs.addressor \cup { Page_from_index(i) : i \in run } |->
             IF p.base = "null" /\ p.index \in run
             THEN frame_base_index
             ELSE hs.addressor[p]],
         hs.array)

\* alloc_to's loop over the BlockPages of the run: each is set full and its
\* page mapped to the frame at the same offset from frame_base_index.
alloc_to_set(hs, frame_base_index, start_index, run) ==
    Heap([i \in DOMAIN hs.map |-> IF i \in run THEN BlockPage_full ELSE hs.map[i]],
         [p \in DOMAIN hs.addressor \cup { Page_from_index(i) : i \in run } |->
             IF p.base = "null" /\ p.index \in run
             THEN frame_base_index + (p.index - start_index)
             ELSE hs.addressor[p]],
         hs.array)

\* alloc_to past its search r: the run is claimed and its address returned.
alloc_to_fulfil(frame_base_index, size_in_frames, r) ==
    IF r.res = "panic"
    THEN HeapOut("panic", r.hs, None, r.grows)
    ELSE HeapOut("Ok",
                 alloc_to_set(r.hs, frame_base_index, r.base_index,
                              alloc_to_run(r.hs.map, r.base_index, size_in_frames)),
                 r.base_index * PAGE_BYTES, r.grows)

\* alloc_to(frames).
alloc_to(hs, frame_base_index, size_in_frames) ==
    alloc_to_fulfil(frame_base_index, size_in_frames,
                    alloc_to_find(hs, size_in_frames, 0))

\* An identity_map that never maps the page.
identity_map_set_unmapped(frame, virtual_map, g) ==
    IF g.res = "panic"
    THEN g
    ELSE HeapOut("Ok", Heap([g.map EXCEPT ![frame] = BlockPage_full], g.addressor, g.array),
                 None, g.grows)

\* BlockPage::set_empty and set_full: the word becomes u64::MIN, u64::MAX.
set_empty(block_page) == BlockPage_empty
set_full(block_page) == BlockPage_full

\* identity_map past its grow g: the BlockPage of the frame is set empty, the
\* assertion that it is empty follows, then it is set full, and the page is
\* mapped to the frame when virtual_map is set.
identity_map_set(frame, virtual_map, g) ==
    IF g.res = "panic"
    THEN g
    ELSE IF ~is_empty(set_empty(g.map[frame]))
    THEN HeapOut("panic", Heap(g.map, g.addressor, g.array), None, g.grows)
    ELSE HeapOut("Ok",
                 Heap([g.map EXCEPT ![frame] = set_full(set_empty(@))],
                      IF virtual_map
                      THEN VirtualAddressor_identity_map(g.addressor, frame)
                      ELSE g.addressor,
                      g.array),
                 None, g.grows)

\* BlockAllocator::identity_map(frame, virtual_map): the map is grown first
\* when it does not reach the frame's index.
BlockAllocator_identity_map(hs, frame, virtual_map) ==
    identity_map_set(frame, virtual_map,
                     IF len(hs.map) <= frame
                     THEN grow(hs, ((frame - len(hs.map)) + 1) * BLOCKS_PER)
                     ELSE HeapOut("Ok", hs, None, 0))

(* ------------------------------------------------------------------ *)
(* The Block Heap as a state machine                                   *)
(* ------------------------------------------------------------------ *)

\* Layouts callers allocate with: one block, two blocks (100 bytes), a page.
AllocSizes == {BLOCK_SIZE, 100, PAGE_BYTES}
AllocAligns == {8, BLOCK_SIZE, 2 * BLOCK_SIZE}

\* Pointers callers hand back: the first block of heap pages 0, 1 and 2.
DeallocPtrs == {0, PAGE_BYTES, 2 * PAGE_BYTES}

\* Frames handed to identity_map and alloc_to: the Reserved frame and a usable one.
HeapFrames == {0, 1}

\* BlockAllocator::new(): an empty map; the Ledger is the one built from the
\* memory map, the addressor has nothing of the heap mapped.
InitH ==
    /\ impl = "heap"
    /\ nxe = TRUE
    /\ array = InitArray
    /\ root = None
    /\ mem = [f \in Frames |-> EmptyTable]
    /\ halted = FALSE
    /\ last = [op |-> "new", res |-> "Ok", ptr |-> None, size |-> None, align |-> None,
               frame |-> None, virtual_map |-> FALSE, grows |-> 0]
    /\ installed = [p \in Pages |-> NoInstall]
    /\ ops = 0
    /\ cpu = [pc |-> [c \in Cores |-> "idle"], hold |-> [c \in Cores |-> NoHold], by |-> 0]
    /\ map = << >>
    /\ addressor = << >>
    /\ locks = NoLocks
    /\ task = [c \in Contexts |-> IdleTask]
    /\ rflags_if = TRUE
    /\ tlb = [c \in Cores |-> EmptyTlb]

HeapCur == Heap(map, addressor, array)

HRunning == ~halted /\ ops < MaxHeapOps

\* The step of a heap operation with outcome o.
HStep(o, op, size, align, frame, virtual_map) ==
    /\ map' = o.map
    /\ addressor' = o.addressor
    /\ array' = o.array
    /\ halted' = (o.res = "panic")
    /\ last' = [op |-> op, res |-> o.res, ptr |-> o.ptr, size |-> size, align |-> align,
                frame |-> frame, virtual_map |-> virtual_map, grows |-> o.grows]
    /\ ops' = ops + 1
    /\ UNCHANGED <<impl, nxe, mem, root, installed, cpu, locks, task, rflags_if, tlb>>

Alloc(size, align) ==
    /\ HRunning
    /\ HStep(alloc(HeapCur, size, align), "alloc", size, align, None, FALSE)

Dealloc(ptr, size) ==
    /\ HRunning
    /\ HStep(dealloc(HeapCur, ptr, size), "dealloc", size, None, None, FALSE)

AllocTo(frame_base_index, size_in_frames) ==
    /\ HRunning
    /\ HStep(alloc_to(HeapCur, frame_base_index, size_in_frames),
             "alloc_to", size_in_frames, None, frame_base_index, FALSE)

BlockIdentityMap(frame, virtual_map) ==
    /\ HRunning
    /\ HStep(BlockAllocator_identity_map(HeapCur, frame, virtual_map),
             "identity_map", None, None, frame, virtual_map)

Grow(required_blocks) ==
    /\ HRunning
    /\ HStep(grow(HeapCur, required_blocks), "grow", required_blocks, None, None, FALSE)

NextH ==
    \/ \E size \in AllocSizes, align \in AllocAligns : Alloc(size, align)
    \/ \E ptr \in DeallocPtrs, size \in AllocSizes : Dealloc(ptr, size)
    \/ \E frame \in HeapFrames : AllocTo(frame, 1)
    \/ \E frame \in HeapFrames, virtual_map \in BOOLEAN : BlockIdentityMap(frame, virtual_map)
    \/ Grow(1)

SpecH == InitH /\ [][NextH]_vars

(* ------------------------------------------------------------------ *)
(* Block Heap: alignment, round trip, growth                           *)
(* ------------------------------------------------------------------ *)

\* The heap an operation's outcome leaves.
HeapOf(o) == Heap(o.map, o.addressor, o.array)

\* C16: every alloc(size, align) that returns gives a pointer that is a
\* multiple of the block size, and a multiple of align when align is a multiple
\* of the block size; a request whose align is not a multiple of the block size
\* is served exactly as the same request with block-size alignment.
C16_AllocAlignment ==
    ~halted =>
        \A size \in AllocSizes, align \in AllocAligns :
            LET a == alloc(HeapCur, size, align)
            IN  /\ a.res = "Ok" =>
                       /\ a.ptr % BLOCK_SIZE = 0
                       /\ align % BLOCK_SIZE = 0 => a.ptr % align = 0
                /\ align % BLOCK_SIZE # 0 => a = alloc(HeapCur, size, BLOCK_SIZE)

\* C16 happens: alloc(100, 8) has just been served, behind earlier allocations,
\* at a block-aligned address.
C16_Witness ==
    /\ last.op = "alloc" /\ last.res = "Ok"
    /\ last.size = 100 /\ last.align = 8
    /\ last.ptr > 0 /\ last.ptr % BLOCK_SIZE = 0

\* The heap pages mapped in an address space, and the pages of the map.
HeapPages(space) == { p \in DOMAIN space : p.base = "null" }
MapPages(space) == { p \in DOMAIN space : p.base = "ALLOCATOR_BASE" }

\* The frames whose Ledger state differs between two Ledgers.
ChangedFrames(before, after) == { f \in Frames : get(before, f) # get(after, f) }

GrowInputs == {1, BLOCKS_PER_MAP_PAGE + 1}

\* grow in the current state leaves every BlockPage there is as it is.
GrowKeepsBlockPages ==
    \A required_blocks \in GrowInputs :
        LET g == grow(HeapCur, required_blocks)
        IN  g.res = "Ok" =>
                /\ len(g.map) > len(map)
                /\ \A i \in DOMAIN map : g.map[i] = map[i]

\* C18: over any sequence of heap operations len() never decreases, and every
\* grow call leaves the BlockPages below the previous length unchanged.
C18_MonotonicGrowth ==
    /\ [][len(map') >= len(map)]_vars
    /\ [](~halted => GrowKeepsBlockPages)
    /\ [][(last'.op = "grow" /\ last'.res = "Ok") =>
             \A i \in DOMAIN map : map'[i] = map[i]]_vars

\* C18 happens: a grow has just enlarged a map that holds allocated blocks.
C18_Witness ==
    /\ last.op = "grow" /\ last.res = "Ok"
    /\ len(map) = 2 * BLOCK_PAGES_PER_MAP_PAGE
    /\ \E i \in DOMAIN map : map[i] # {}

\* The BlockPages of an outcome that are full, and those that are not zero.
FullBlockPages(o) == { i \in DOMAIN o.map : is_full(o.map[i]) }
UsedBlockPages(o) == { i \in DOMAIN o.map : ~is_empty(o.map[i]) }

\* C19 as stated: on a fresh heap alloc(4096, 64) sets all 64 bits of exactly
\* one BlockPage and maps exactly one heap page; the alloc(64, 64) that follows
\* gets no block of that page and calls grow.
C19_FullPageThenGrow ==
    (~halted /\ len(map) = 0 /\ HeapPages(addressor) = {} /\ FreeCount(array) >= 3) =>
        LET a == alloc(HeapCur, PAGE_BYTES, BLOCK_SIZE)
            b == alloc(HeapOf(a), BLOCK_SIZE, BLOCK_SIZE)
        IN  /\ a.res = "Ok" /\ b.res = "Ok"
            /\ Cardinality(FullBlockPages(a)) = 1
            /\ UsedBlockPages(a) = FullBlockPages(a)
            /\ HeapPages(a.addressor) = { Page_from_index(i) : i \in FullBlockPages(a) }
            /\ (b.ptr \div PAGE_BYTES) \notin FullBlockPages(a)
            /\ b.grows >= 1

\* C19 amended: on a fresh heap alloc(4096, 64) calls grow once, which makes
\* len() 512, sets all 64 bits of BlockPage 0 and of no other, and maps heap
\* page 0 and no other; the alloc(64, 64) that follows gets no block of that
\* page: it is served from BlockPage 1, whose page it maps, without calling grow.
C19_FullPageThenNextPage ==
    (~halted /\ len(map) = 0 /\ HeapPages(addressor) = {} /\ FreeCount(array) >= 3) =>
        LET a == alloc(HeapCur, PAGE_BYTES, BLOCK_SIZE)
            b == alloc(HeapOf(a), BLOCK_SIZE, BLOCK_SIZE)
        IN  /\ a.res = "Ok" /\ b.res = "Ok"
            /\ a.grows = 1 /\ len(a.map) = BLOCK_PAGES_PER_MAP_PAGE
            /\ a.ptr = 0
            /\ FullBlockPages(a) = {0}
            /\ UsedBlockPages(a) = {0}
            /\ HeapPages(a.addressor) = {Page_from_index(0)}
            /\ b.grows = 0 /\ len(b.map) = len(a.map)
            /\ b.ptr = PAGE_BYTES
            /\ b.map = [a.map EXCEPT ![1] = {0}]
            /\ HeapPages(b.addressor) = {Page_from_index(0), Page_from_index(1)}

\* C19 happens: alloc(4096, 64) on the fresh heap and then alloc(64, 64) have
\* run; the second was served from heap page 1 without a grow.
C19_Witness ==
    /\ ops = 2 /\ last.op = "alloc" /\ last.res = "Ok"
    /\ last.size = BLOCK_SIZE /\ last.align = BLOCK_SIZE
    /\ last.ptr = PAGE_BYTES /\ last.grows = 0
    /\ is_full(map[0]) /\ map[1] = {0}
    /\ FreeCount(array) = FreeCount(InitArray) - 3

\* BlockPage[i] is zero iff heap page i is unmapped, for every i below len().
ZeroIffUnmapped(blocks, space) ==
    \A i \in DOMAIN blocks : is_empty(blocks[i]) <=> Page_from_index(i) \notin DOMAIN space

\* C20 as stated: after any sequence of completed alloc, dealloc, alloc_to and
\* identity_map calls, BlockPage[i] is zero if and only if heap page i is
\* unmapped.
C20_ZeroIffUnmapped ==
    ~halted => ZeroIffUnmapped(map, addressor)

\* C20 amended: a zero BlockPage never has a mapped heap page; and every
\* completed alloc, dealloc, alloc_to, grow and identity_map(frame, true) keeps
\* "BlockPage[i] is zero iff heap page i is unmapped", which only
\* identity_map(frame, false) breaks, by setting the word without mapping.
C20_ZeroIffUnmappedButUnmappedIdentity ==
    /\ [](~halted =>
            \A i \in DOMAIN map :
                is_empty(map[i]) => Page_from_index(i) \notin DOMAIN addressor)
    /\ [][(/\ ZeroIffUnmapped(map, addressor)
           /\ ~halted'
           /\ ~(last'.op = "identity_map" /\ ~last'.virtual_map))
          => ZeroIffUnmapped(map', addressor')]_vars
    /\ [][(/\ ZeroIffUnmapped(map, addressor)
           /\ ~halted'
           /\ last'.op = "identity_map" /\ ~last'.virtual_map
           /\ Page_from_index(last'.frame) \notin DOMAIN addressor)
          => ~ZeroIffUnmapped(map', addressor')]_vars

\* C20 happens: after an alloc that mapped a page, an identity_map that mapped
\* its frame's page and a completed dealloc, the words and the mappings agree,
\* with zero and non-zero BlockPages both there.
C20_Witness ==
    /\ ~halted /\ ops = MaxHeapOps
    /\ last.op = "dealloc" /\ last.res = "Ok"
    /\ ZeroIffUnmapped(map, addressor)
    /\ Cardinality(HeapPages(addressor)) >= 2
    /\ \E i \in DOMAIN map : is_empty(map[i])

(* ------------------------------------------------------------------ *)
(* Block Heap: double free                                             *)
(* ------------------------------------------------------------------ *)

\* The blocks dealloc(ptr, size) targets, and whether a block is allocated:
\* its bit is set in a BlockPage the map holds.
DeallocBlocks(ptr, size) ==
    (ptr \div BLOCK_SIZE) .. ((ptr \div BLOCK_SIZE) + align_up_div(size, BLOCK_SIZE) - 1)
BlockAllocated(blocks, b) ==
    /\ (b \div BLOCKS_PER) \in DOMAIN blocks
    /\ (b % BLOCKS_PER) \in blocks[b \div BLOCKS_PER]

\* Pointers of the double-free checks: the first block of heap pages 0, 1, 2
\* and the last block of heap page 0 (a range that crosses into page 1).
DoubleFreePtrs == DeallocPtrs \cup {(BLOCKS_PER - 1) * BLOCK_SIZE}

\* The first BlockPage of the range on which dealloc's assert_eq fails.
FailingBlockPage(blocks, ptr, size) ==
    LET bad == { b \div BLOCKS_PER : b \in { x \in DeallocBlocks(ptr, size) :
                                              ~BlockAllocated(blocks, x) } }
    IN  CHOOSE i \in bad : \A j \in bad : i <= j

\* The outcome d of a dealloc halts and has neither unmapped BlockPage i nor
\* changed the state of the frame behind it.
HaltsKeepingPage(hs, d, i) ==
    /\ d.res = "panic"
    /\ translate_page(d.addressor, Page_from_index(i))
         = translate_page(hs.addressor, Page_from_index(i))
    /\ translate_page(hs.addressor, Page_from_index(i)) # None =>
         get(d.array, translate_page(hs.addressor, Page_from_index(i)))
           = get(hs.array, translate_page(hs.addressor, Page_from_index(i)))

\* C21: a dealloc(ptr, size) whose block range contains a block that is not
\* allocated halts on the assertion, never returns normally, and frees no frame
\* for the BlockPage on which the assertion fails.
C21_DoubleFreeHalts ==
    ~halted =>
        \A ptr \in DoubleFreePtrs, size \in AllocSizes :
            (\E b \in DeallocBlocks(ptr, size) : ~BlockAllocated(map, b)) =>
                HaltsKeepingPage(HeapCur, dealloc(HeapCur, ptr, size),
                                 FailingBlockPage(map, ptr, size))

\* What the code does keep of C21: when every BlockPage of the range is within
\* the map, a range with a block that is not allocated halts and the failing
\* BlockPage keeps its mapping and its frame.
DoubleFreeWithinMapHalts ==
    ~halted =>
        \A ptr \in DoubleFreePtrs, size \in AllocSizes :
            (/\ \A b \in DeallocBlocks(ptr, size) : (b \div BLOCKS_PER) \in DOMAIN map
             /\ \E b \in DeallocBlocks(ptr, size) : ~BlockAllocated(map, b)) =>
                HaltsKeepingPage(HeapCur, dealloc(HeapCur, ptr, size),
                                 FailingBlockPage(map, ptr, size))

\* A dealloc beyond the map came back normally, and one within it halted.
DeallocBeyondMapReturned ==
    /\ last.op = "dealloc" /\ last.res = "Ok" /\ len(map) = 0
DoubleFreeWithinMapHalted ==
    /\ last.op = "dealloc" /\ last.res = "panic" /\ len(map) > 0

(* ------------------------------------------------------------------ *)
(* Block Heap: alloc_to                                                *)
(* ------------------------------------------------------------------ *)

\* Lengths of the frame ranges handed to alloc_to in the checks.
AllocToLens == {1, 2}

\* The outcome a of alloc_to(frames) with k frames from frame_base_index on,
\* called on the heap hs: the run start .. start + k - 1 was zero (or did not
\* exist before a grow), is all-ones and mapped frame by frame, the pointer is
\* the address of page start, every other BlockPage is as before (zero when
\* grow added it), and the Ledger changed only for the frames grow took for
\* pages of the map.
AllocToClaims(hs, a, frame_base_index, k) ==
    LET start == a.ptr \div PAGE_BYTES
        run == start .. (start + k - 1)
    IN  /\ a.ptr = start * PAGE_BYTES
        /\ run \subseteq DOMAIN a.map
        /\ \A i \in run :
              /\ i \in DOMAIN hs.map => is_empty(hs.map[i])
              /\ is_full(a.map[i])
              /\ translate_page(a.addressor, Page_from_index(i))
                   = frame_base_index + (i - start)
        /\ \A i \in DOMAIN a.map \ run :
              a.map[i] = IF i \in DOMAIN hs.map THEN hs.map[i] ELSE BlockPage_empty
        /\ DOMAIN hs.map \subseteq DOMAIN a.map
        /\ \A p \in HeapPages(a.addressor) \cup HeapPages(hs.addressor) :
              p.index \notin run =>
                  translate_page(a.addressor, p) = translate_page(hs.addressor, p)
        /\ ChangedFrames(hs.array, a.array)
             = { a.addressor[p] : p \in MapPages(a.addressor) \ MapPages(hs.addressor) }
        /\ a.grows = 0 => a.array = hs.array /\ DOMAIN a.map = DOMAIN hs.map

\* C22: alloc_to(frames) with k frames selects k consecutive BlockPages that
\* were all zero, sets each to all-ones, maps heap page start + j to frame
\* frames.start + j, returns the address of page start and takes no frame from
\* the Ledger for backing (only grow takes frames, for pages of the map); no
\* BlockPage outside the run changes.
C22_AllocToBindsFrames ==
    ~halted =>
        \A frame \in HeapFrames, k \in AllocToLens :
            LET a == alloc_to(HeapCur, frame, k)
            IN  a.res = "Ok" => AllocToClaims(HeapCur, a, frame, k)

\* An alloc_to returned on a heap that holds other allocations: its page is
\* all-ones and mapped to the caller's frame, another page is in use.
C22_Witness ==
    /\ last.op = "alloc_to" /\ last.res = "Ok"
    /\ is_full(map[last.ptr \div PAGE_BYTES])
    /\ translate_page(addressor, Page_from_index(last.ptr \div PAGE_BYTES)) = last.frame
    /\ \E i \in DOMAIN map : i # last.ptr \div PAGE_BYTES /\ ~is_empty(map[i])

(* ------------------------------------------------------------------ *)
(* The Block Heap under its locks                                      *)
(* ------------------------------------------------------------------ *)

\* Operations started in the lock-level specifications.
MaxTaskOps == 3

\* spin::RwLock: read() waits while a writer or an upgradeable reader holds
\* the lock, write() until nobody holds it, upgradeable_read() while a writer
\* or another upgradeable reader holds it, upgrade() until no reader is left.
try_read(l) == l.writer = None /\ l.upgraded = None
try_write(l) == l = Unlocked
try_upgradeable_read(l) == l.writer = None /\ l.upgraded = None
try_upgrade(l) == l.readers = {}
RwLock_read(l, c) == [l EXCEPT !.readers = @ \cup {c}]
RwLock_write(l, c) == [l EXCEPT !.writer = c]
RwLock_upgradeable_read(l, c) == [l EXCEPT !.upgraded = c]
RwLock_upgrade(l, c) == [l EXCEPT !.upgraded = None, !.writer = c]
\* A read guard that is not dropped.
drop_read_kept(l, c) == l
\* The guards' drop.
drop_read(l, c) == [l EXCEPT !.readers = @ \ {c}]
drop_write(l) == [l EXCEPT !.writer = None]

\* The locks a context holds.
HeldBy(c) ==
    { n \in DOMAIN locks :
        locks[n].writer = c \/ locks[n].upgraded = c \/ c \in locks[n].readers }

\* The bits of BlockPage map_index within the blocks start .. end - 1, the mask
\* calculate_bit_fields gives alloc and dealloc for that BlockPage.
RunMask(map_index, start_block_index, end_block_index) ==
    { b \in BlockPage_full :
        /\ start_block_index <= map_index * BLOCKS_PER + b
        /\ map_index * BLOCKS_PER + b < end_block_index }

\* The BlockPages alloc's and dealloc's loops visit for such a run.
RunPages(blocks, start_block_index, end_block_index) ==
    { i \in DOMAIN blocks :
        /\ start_block_index \div BLOCKS_PER <= i
        /\ i < align_up_div(end_block_index, BLOCKS_PER) }

\* alloc's marking loop reaches a BlockPage without bits, whose page it maps
\* through the addressor: no BlockPage before it fails the assert_eq.
MarkTakesAddressor(blocks, start_block_index, end_block_index) ==
    \E i \in RunPages(blocks, start_block_index, end_block_index) :
        /\ is_empty(blocks[i])
        /\ \A j \in RunPages(blocks, start_block_index, end_block_index) :
              j < i =>
                  blocks[j] \cap RunMask(j, start_block_index, end_block_index) = {}

\* dealloc's loop reaches a BlockPage that loses its last bits, whose page it
\* unmaps through the addressor.
ClearTakesAddressor(blocks, start_block_index, end_block_index) ==
    \E i \in RunPages(blocks, start_block_index, end_block_index) :
        /\ ~is_empty(blocks[i])
        /\ blocks[i] = RunMask(i, start_block_index, end_block_index)
        /\ \A j \in RunPages(blocks, start_block_index, end_block_index) :
              j < i =>
                  RunMask(j, start_block_index, end_block_index) \subseteq blocks[j]

\* The lock the next step of a BlockAllocator operation takes can be taken:
\* the point the context has reached names the call it is to make.
Ready(c) ==
    CASE task[c].pc \in {"scan", "len"} -> try_read(locks.map)
      [] task[c].pc = "grow" -> try_upgradeable_read(locks.map)
      [] task[c].pc = "grow_map" -> try_write(locks.addressor)
      [] task[c].pc = "grow_upgrade" -> try_upgrade(locks.map)
      [] task[c].pc \in {"mark", "clear", "set", "map"} -> try_write(locks.map)
      [] task[c].pc = "marking" ->
            MarkTakesAddressor(map, task[c].locals.start_block_index,
                               task[c].locals.end_block_index)
                => try_write(locks.addressor)
      [] task[c].pc = "clearing" ->
            ClearTakesAddressor(map, task[c].locals.start_block_index,
                                task[c].locals.end_block_index)
                => try_write(locks.addressor)
      [] task[c].pc = "addressor" -> try_write(locks.addressor)
      [] task[c].pc = "setting" /\ task[c].op = "identity_map" ->
            task[c].args.virtual_map => try_write(locks.addressor)
      [] OTHER -> TRUE

\* A context enters an operation: a call is made while the kernel runs.
TaskRunning(c) == ~halted /\ task[c].op # "idle"

CallOp(c, op, pc, args, locals) ==
    /\ ~halted /\ ops < MaxTaskOps
    /\ task[c] = IdleTask
    /\ task' = [task EXCEPT ![c] = [op |-> op, pc |-> pc, args |-> args,
                                    locals |-> locals]]
    /\ ops' = ops + 1
    /\ UNCHANGED <<impl, nxe, array, mem, root, halted, last, installed, cpu, map,
                   addressor, locks, rflags_if, tlb>>

\* A step of context c inside an operation: it moves to pc with locals, the
\* locks become l2.
TaskStep(c, pc, locals, l2) ==
    /\ task' = [task EXCEPT ![c] = [@ EXCEPT !.pc = pc, !.locals = locals]]
    /\ locks' = l2
    /\ UNCHANGED <<impl, nxe, mem, root, halted, last, installed, ops, cpu, tlb>>

\* A lock is taken: nothing else changes.
TaskLock(c, pc, l2) ==
    /\ TaskStep(c, pc, task[c].locals, l2)
    /\ UNCHANGED <<array, map, addressor, rflags_if>>

\* The last step of an operation with outcome o: the context returns, or the
\* kernel halts inside the operation with the locks it holds.
TaskReturn(c, o, l2) ==
    /\ map' = o.map
    /\ addressor' = o.addressor
    /\ array' = o.array
    /\ halted' = (o.res = "panic")
    /\ last' = [op |-> task[c].op, res |-> o.res, ptr |-> o.ptr,
                size |-> task[c].args.size, align |-> task[c].args.align,
                frame |-> task[c].args.frame, virtual_map |-> task[c].args.virtual_map,
                grows |-> o.grows]
    /\ task' = [task EXCEPT ![c] = IF o.res = "panic" THEN @ ELSE IdleTask]
    /\ locks' = IF o.res = "panic" THEN locks ELSE l2
    /\ UNCHANGED <<impl, nxe, mem, root, installed, ops, cpu, rflags_if, tlb>>

HeapArgs(size, align, ptr, frame, virtual_map) ==
    [size |-> size, align |-> align, ptr |-> ptr, frame |-> frame,
     virtual_map |-> virtual_map]

\* Entry of alloc, dealloc, alloc_to, identity_map and grow.
CallAlloc(c, size, align) ==
    CallOp(c, "alloc", "scan", HeapArgs(size, align, None, None, FALSE),
           [size_in_blocks |-> (size + (BLOCK_SIZE - 1)) \div BLOCK_SIZE,
            alignment |-> alloc_alignment(align), grows |-> 0])
CallDealloc(c, ptr, size) ==
    CallOp(c, "dealloc", "clear", HeapArgs(size, None, ptr, None, FALSE),
           [start_block_index |-> ptr \div BLOCK_SIZE,
            end_block_index |-> (ptr \div BLOCK_SIZE) + align_up_div(size, BLOCK_SIZE),
            grows |-> 0])
CallAllocTo(c, frame_base_index, size_in_frames) ==
    CallOp(c, "alloc_to", "scan",
           HeapArgs(size_in_frames, None, None, frame_base_index, FALSE),
           [size_in_frames |-> size_in_frames, grows |-> 0])
CallIdentityMap(c, frame, virtual_map) ==
    CallOp(c, "identity_map", "len", HeapArgs(None, None, None, frame, virtual_map),
           [grows |-> 0])
CallGrow(c, required_blocks) ==
    CallOp(c, "grow", "grow", HeapArgs(required_blocks, None, None, None, FALSE),
           [required_blocks |-> required_blocks, ret |-> "return", grows |-> 0])
\* The call of grow(required_blocks) from inside an operation, which goes on
\* at ret when grow returns.
GrowCall(t, required_blocks, ret) ==
    [required_blocks |-> required_blocks, ret |-> ret, grows |-> t.locals.grows]

\* alloc and alloc_to: self.map.read() for the scan; identity_map:
\* self.map.read() for len().
MapRead(c) ==
    /\ TaskRunning(c)
    /\ task[c].pc \in {"scan", "len"}
    /\ Ready(c)
    /\ TaskLock(c, IF task[c].pc = "scan" THEN "scanning" ELSE "len_read",
                [locks EXCEPT !.map = RwLock_read(@, c)])

\* alloc's scan under the read lock, which the end of the for loop drops: the
\* run is found, or grow(size_in_blocks) is called with no lock held.
AllocScanFound(t, r) ==
    IF r.current_run < t.locals.size_in_blocks
    THEN [pc |-> "grow", locals |-> GrowCall(t, t.locals.size_in_blocks, "scan")
                                      @@ t.locals]
    ELSE [pc |-> "mark",
          locals |-> [start_block_index |-> r.block_index - r.current_run,
                      end_block_index |-> r.block_index] @@ t.locals]
AllocScan(c) ==
    /\ TaskRunning(c)
    /\ task[c].op = "alloc" /\ task[c].pc = "scanning"
    /\ LET n == AllocScanFound(task[c],
                               scan_map(map, 0, 0, 0, task[c].locals.size_in_blocks,
                                        task[c].locals.alignment))
       IN  TaskStep(c, n.pc, n.locals, [locks EXCEPT !.map = drop_read(@, c)])
    /\ UNCHANGED <<array, map, addressor, rflags_if>>

\* alloc_to's scan under the read lock.
AllocToScanFound(t, base_index) ==
    IF base_index = None
    THEN [pc |-> "grow",
          locals |-> GrowCall(t, t.locals.size_in_frames * BLOCKS_PER, "scan")
                       @@ t.locals]
    ELSE [pc |-> "addressor", locals |-> [base_index |-> base_index] @@ t.locals]
AllocToScan(c) ==
    /\ TaskRunning(c)
    /\ task[c].op = "alloc_to" /\ task[c].pc = "scanning"
    /\ LET n == AllocToScanFound(task[c],
                                 alloc_to_scan(map, 0, 0, task[c].locals.size_in_frames))
       IN  TaskStep(c, n.pc, n.locals, [locks EXCEPT !.map = drop_read(@, c)])
    /\ UNCHANGED <<array, map, addressor, rflags_if>>

\* identity_map's map_len, read under a read lock dropped at once.
IdentityMapLen(c) ==
    /\ TaskRunning(c)
    /\ task[c].op = "identity_map" /\ task[c].pc = "len_read"
    /\ IF len(map) <= task[c].args.frame
       THEN TaskStep(c, "grow",
                     GrowCall(task[c],
                              ((task[c].args.frame - len(map)) + 1) * BLOCKS_PER, "set")
                       @@ task[c].locals,
                     [locks EXCEPT !.map = drop_read(@, c)])
       ELSE TaskStep(c, "set", task[c].locals, [locks EXCEPT !.map = drop_read(@, c)])
    /\ UNCHANGED <<array, map, addressor, rflags_if>>

\* grow: the assert, then self.map.upgradeable_read().
GrowUpgradeableRead(c) ==
    /\ TaskRunning(c)
    /\ task[c].pc = "grow"
    /\ IF task[c].locals.required_blocks <= 0
       THEN TaskReturn(c, HeapOut("panic", HeapCur, None, 0), locks)
       ELSE /\ Ready(c)
            /\ TaskLock(c, "grow_map",
                        [locks EXCEPT !.map = RwLock_upgradeable_read(@, c)])

\* grow's block under the addressor's write lock: the new pages of the map
\* are mapped to autolocked frames.
GrowMapPages(c) ==
    /\ TaskRunning(c)
    /\ task[c].pc = "grow_map"
    /\ Ready(c)
    /\ LET m == grow_map_pages(HeapCur, cur_page_offset(len(map)),
                               new_page_offset(len(map), task[c].locals.required_blocks))
       IN  /\ addressor' = m.hs.addressor
           /\ array' = m.hs.array
           /\ halted' = (m.res = "panic")
           /\ task' = [task EXCEPT ![c].pc = IF m.res = "panic" THEN @ ELSE "grow_upgrade"]
           /\ locks' = IF m.res = "panic"
                       THEN [locks EXCEPT !.addressor = RwLock_write(@, c)]
                       ELSE locks
    /\ UNCHANGED <<impl, nxe, mem, root, last, installed, ops, cpu, map, rflags_if, tlb>>

\* grow's upgrade to the write lock, the new slice and its fill; the guards
\* are dropped when grow returns.
GrowUpgrade(c) ==
    /\ TaskRunning(c)
    /\ task[c].pc = "grow_upgrade"
    /\ Ready(c)
    /\ LET g == grow_fill(len(map),
                          new_page_offset(len(map), task[c].locals.required_blocks)
                            * BLOCK_PAGES_PER_MAP_PAGE,
                          [res |-> "Ok", hs |-> HeapCur])
           grown == [task[c].locals EXCEPT !.grows = @ + 1]
       IN  IF task[c].locals.ret = "return"
           THEN TaskReturn(c, g, [locks EXCEPT !.map = [@ EXCEPT !.upgraded = None]])
           ELSE /\ map' = g.map
                /\ TaskStep(c, task[c].locals.ret, grown,
                            [locks EXCEPT !.map = [@ EXCEPT !.upgraded = None]])
                /\ UNCHANGED <<array, addressor, rflags_if>>
\* alloc's and dealloc's loops, identity_map's index: self.map.write().
\* alloc_to takes it inside the addressor's write lock.
MapWrite(c) ==
    /\ TaskRunning(c)
    /\ task[c].pc \in {"mark", "clear", "set", "map"}
    /\ Ready(c)
    /\ TaskLock(c, CASE task[c].pc = "mark" -> "marking"
                     [] task[c].pc = "clear" -> "clearing"
                     [] OTHER -> "setting",
                [locks EXCEPT !.map = RwLock_write(@, c)])

\* alloc's marking loop under the map's write lock; a BlockPage without bits
\* takes the addressor's write lock for its page. The pointer is returned.
AllocMark(c) ==
    /\ TaskRunning(c)
    /\ task[c].op = "alloc" /\ task[c].pc = "marking"
    /\ Ready(c)
    /\ TaskReturn(c,
                  alloc_return(task[c].locals.start_block_index, task[c].locals.grows,
                               alloc_mark(HeapCur,
                                          task[c].locals.start_block_index \div BLOCKS_PER,
                                          align_up_div(task[c].locals.end_block_index,
                                                       BLOCKS_PER),
                                          task[c].locals.end_block_index,
                                          task[c].locals.start_block_index)),
                  [locks EXCEPT !.map = drop_write(@)])

\* dealloc's loop under the map's write lock; a BlockPage that loses its last
\* bits takes the addressor's write lock to free its frame and unmap its page.
DeallocClear(c) ==
    /\ TaskRunning(c)
    /\ task[c].op = "dealloc" /\ task[c].pc = "clearing"
    /\ Ready(c)
    /\ TaskReturn(c, dealloc(HeapCur, task[c].args.ptr, task[c].args.size),
                  [locks EXCEPT !.map = drop_write(@)])

\* alloc_to: get_addressor_mut(), held to the end of the block.
AllocToAddressorWrite(c) ==
    /\ TaskRunning(c)
    /\ task[c].op = "alloc_to" /\ task[c].pc = "addressor"
    /\ Ready(c)
    /\ TaskLock(c, "map", [locks EXCEPT !.addressor = RwLock_write(@, c)])

\* alloc_to's loop under both write locks.
AllocToSet(c) ==
    /\ TaskRunning(c)
    /\ task[c].op = "alloc_to" /\ task[c].pc = "setting"
    /\ TaskReturn(c,
                  alloc_to_fulfil(task[c].args.frame, task[c].locals.size_in_frames,
                                  [res |-> "Ok", hs |-> HeapCur,
                                   base_index |-> task[c].locals.base_index,
                                   grows |-> task[c].locals.grows]),
                  [locks EXCEPT !.map = drop_write(@), !.addressor = drop_write(@)])

\* identity_map under the map's write lock, kept to the end of the function:
\* the BlockPage is set full, and get_addressor_mut() is taken when virtual_map.
IdentityMapSet(c) ==
    /\ TaskRunning(c)
    /\ task[c].op = "identity_map" /\ task[c].pc = "setting"
    /\ Ready(c)
    /\ TaskReturn(c,
                  identity_map_set(task[c].args.frame, task[c].args.virtual_map,
                                   HeapOut("Ok", HeapCur, None, task[c].locals.grows)),
                  [locks EXCEPT !.map = drop_write(@)])

\* Layouts, pointers and frames of the calls the contexts make.
TaskAllocSizes == {BLOCK_SIZE, PAGE_BYTES}
TaskFrames == {1}

\* The operations a context can start and the steps it takes inside one.
HeapCalls(c) ==
    \/ \E size \in TaskAllocSizes : CallAlloc(c, size, BLOCK_SIZE)
    \/ CallDealloc(c, 0, BLOCK_SIZE)
    \/ \E frame \in TaskFrames : CallAllocTo(c, frame, 1)
    \/ \E frame \in TaskFrames, virtual_map \in BOOLEAN :
          CallIdentityMap(c, frame, virtual_map)
    \/ CallGrow(c, 1)

HeapSteps(c) ==
    \/ MapRead(c)
    \/ AllocScan(c)
    \/ AllocToScan(c)
    \/ IdentityMapLen(c)
    \/ GrowUpgradeableRead(c)
    \/ GrowMapPages(c)
    \/ GrowUpgrade(c)
    \/ MapWrite(c)
    \/ AllocMark(c)
    \/ DeallocClear(c)
    \/ AllocToAddressorWrite(c)
    \/ AllocToSet(c)
    \/ IdentityMapSet(c)

\* BlockAllocator used from two cores.
NextB == \E c \in Contexts : HeapCalls(c) \/ HeapSteps(c)

SpecB == InitH /\ [][NextB]_vars

(* ------------------------------------------------------------------ *)
(* Block Heap: lock order on two cores                                 *)
(* ------------------------------------------------------------------ *)

\* A context is inside an operation and its next step waits for a lock.
Waiting(c) == TaskRunning(c) /\ ~Ready(c)

\* C25: no interleaving of alloc, dealloc, alloc_to, identity_map and grow on
\* two cores deadlocks: while the kernel runs, a core that waits for a lock
\* waits for a core that can still take a step.
C25_NoHeapDeadlock ==
    ~halted => ~(\A c \in Contexts : Waiting(c))

\* The order the claim gives as the reason: no context asks for the map's lock
\* while it holds the addressor's.
AddressorNeverBeforeMap ==
    \A c \in Contexts :
        TaskRunning(c) /\ task[c].pc \in {"scan", "len", "grow", "mark", "clear", "set", "map"}
            => "addressor" \notin HeldBy(c)

\* The deadlock: one core in alloc's marking loop holds the map's write lock
\* and waits for the addressor's, the other in alloc_to holds the addressor's
\* write lock and waits for the map's.
MarkAgainstAllocTo ==
    \E c, d \in Contexts :
        /\ task[c].op = "alloc" /\ task[c].pc = "marking"
        /\ locks.map.writer = c
        /\ task[d].op = "alloc_to" /\ task[d].pc = "map"
        /\ locks.addressor.writer = d

(* ------------------------------------------------------------------ *)
(* Block Heap: self-hosting on one core                                *)
(* ------------------------------------------------------------------ *)

\* BlockAllocator used from one core, which goes on with the operation it is
\* in whenever the lock it asks for can be taken.
NextS == HeapCalls(1) \/ HeapSteps(1)

\* The steps that take a lock: a spin loop ends once the lock can be taken.
TakeLock(c) ==
    MapRead(c) \/ MapWrite(c) \/ GrowUpgradeableRead(c) \/ AllocToAddressorWrite(c)

\* Weak fairness of HeapSteps(c), whose enabling condition is that the context
\* is inside an operation and the lock its next step takes can be taken: a
\* core goes on executing the operation it is in.
Executes(c) ==
    []<>(~(TaskRunning(c) /\ Ready(c))) \/ []<><<HeapSteps(c)>>_vars

SpecS == InitH /\ [][NextS]_vars /\ WF_vars(TakeLock(1)) /\ Executes(1)

\* The points of grow.
GrowPcs == {"grow", "grow_map", "grow_upgrade"}

\* C26: on one core every alloc call comes to its end (it returns, or the
\* kernel halts when the Ledger has no frame left), also when it has to grow
\* the map; alloc holds no lock of the map at the moment it calls grow; and
\* grow only maps pages through the addressor and the Ledger: inside grow the
\* context stays in the operation that called it and no bit of an existing
\* BlockPage changes, as a call of alloc or dealloc would make it.
C26_SelfHostingTerminates ==
    /\ [](task[1].op = "alloc" => <>(task[1].op = "idle" \/ halted))
    /\ [](task[1].op = "alloc" /\ task[1].pc = "grow" => HeldBy(1) = {})
    /\ [][task[1].pc \in GrowPcs /\ ~halted' =>
            /\ task'[1].op \in {task[1].op, "idle"}
            /\ task'[1].pc \in GrowPcs \cup {task[1].locals.ret, "idle"}
            /\ \A i \in DOMAIN map : map'[i] = map[i]]_vars

\* An alloc that had to grow the map has returned its pointer.
C26_Witness ==
    /\ last.op = "alloc" /\ last.res = "Ok" /\ last.grows > 0
    /\ task[1] = IdleTask
    /\ BlockAllocated(map, last.ptr \div BLOCK_SIZE)

(* ------------------------------------------------------------------ *)
(* One core that takes interrupts                                      *)
(* ------------------------------------------------------------------ *)
(* Context 1 is the kernel code of the core, context 2 the handler of   *)
(* an interrupt taken on that core. rflags_if is RFLAGS.IF of context  *)
(* 1; the handler is entered through an interrupt gate, runs with IF   *)
(* clear and to its end, and iret restores the interrupted RFLAGS.     *)

\* interrupts::are_enabled as context c reads it.
are_enabled(c) == IF c = 2 THEN FALSE ELSE rflags_if

\* interrupts::without that leaves the flag as it is.
without_disable_skipped(interrupts_enabled, flag) == flag
\* interrupts::without: `if interrupts_enabled { disable() }` before func and
\* `if interrupts_enabled { enable() }` after it, on the flag of the core.
without_disable(interrupts_enabled, flag) == IF interrupts_enabled THEN FALSE ELSE flag

\* interrupts::without that enables interrupts whenever it returns.
without_enable_always(interrupts_enabled, flag) == TRUE
without_enable(interrupts_enabled, flag) == IF interrupts_enabled THEN TRUE ELSE flag

\* The functions of PageManager that take virtual_map.write() and .read().
WriteCalls == {"map", "unmap", "copy_by_map", "set_page_attributes"}
ReadCalls == {"is_mapped", "is_mapped_to", "get_mapped_to", "get_page_attributes",
              "root_frame_index"}

\* The functions that wrap the lock in interrupts::without.
WithoutCalls == (WriteCalls \cup ReadCalls) \ {"root_frame_index"}

PMArgs(page, to, frame, lock_frame, attrs, mode) ==
    [page |-> page, to |-> to, frame |-> frame, lock_frame |-> lock_frame,
     attrs |-> attrs, mode |-> mode]

\* The locals of a PageManager operation: the function of PageManager it is
\* in, the Ledger call it is to make, the frame it maps, the flag `without`
\* saved and the value the function returned.
PMLocals(call, ledger, frame) ==
    [call |-> call, ledger |-> ledger, frame |-> frame, interrupts_enabled |-> FALSE,
     res |-> "-"]

\* Entry of the operations of PageManager.
CallPM(c, call, page, to, frame, lock_frame, attrs, mode) ==
    CallOp(c, call, IF call = "root_frame_index" THEN "virtual_map" ELSE "without",
           PMArgs(page, to, frame, lock_frame, attrs, mode),
           PMLocals(call, "-", frame))
CallAutoMap(c, page, attribs) ==
    CallOp(c, "auto_map", "array", PMArgs(page, None, None, FALSE, attribs, "-"),
           PMLocals("-", "lock_next", None))
CallMapMmio(c, page, frame_index) ==
    CallOp(c, "map_mmio", "array", PMArgs(page, None, frame_index, FALSE, MMIO, "Set"),
           PMLocals("-", "lock", frame_index))

\* The body of the function under virtual_map calls the Ledger: map locks the
\* frame or creates tables, copy_by_map creates the tables of map_to.
NeedsLedger(t) ==
    \/ /\ t.locals.call = "map"
       /\ t.args.lock_frame \/ ~get_page_entry(Cur, t.args.page).found
    \/ /\ t.locals.call = "copy_by_map"
       /\ get_page_entry(Cur, t.args.page).found
       /\ ~get_page_entry(Cur, t.args.to).found

\* The lock the next step of context c takes can be taken.
ReadyI(c) ==
    CASE task[c].pc = "virtual_map" ->
            IF task[c].locals.call \in WriteCalls
            THEN try_write(locks.virtual_map)
            ELSE try_read(locks.virtual_map)
      [] task[c].pc = "array" -> try_write(locks.array)
      [] task[c].pc = "body" -> NeedsLedger(task[c]) => try_write(locks.array)
      [] OTHER -> Ready(c)

\* PageManager::is_mapped_to.
k_is_mapped_to(st, page, frame_index) ==
    get_page_entry(st, page).found /\ k_get_mapped_to(st, page) = frame_index

\* What the function does under the lock; of an Option returned, whether it
\* is Some.
PMOutcome(st, t) ==
    CASE t.locals.call = "map" ->
            k_map(st, t.args.page, t.locals.frame, t.args.lock_frame, t.args.attrs, nxe)
      [] t.locals.call = "unmap" -> k_unmap(st, t.args.page, FALSE, nxe)
      [] t.locals.call = "copy_by_map" ->
            k_copy_by_map(st, t.args.page, t.args.to, t.args.attrs, nxe)
      [] t.locals.call = "set_page_attributes" ->
            k_set_page_attributes(st, t.args.page, t.args.attrs, t.args.mode, nxe)
      [] t.locals.call = "is_mapped" ->
            Outcome(st, st.mem, st.array,
                    IF is_mapped(st, t.args.page) THEN "true" ELSE "false")
      [] t.locals.call = "is_mapped_to" ->
            Outcome(st, st.mem, st.array,
                    IF k_is_mapped_to(st, t.args.page, t.args.frame)
                    THEN "true" ELSE "false")
      [] t.locals.call = "get_mapped_to" ->
            Outcome(st, st.mem, st.array,
                    IF k_get_mapped_to(st, t.args.page) = None THEN "None" ELSE "Some")
      [] t.locals.call = "get_page_attributes" ->
            Outcome(st, st.mem, st.array,
                    IF get_page_attributes(st, t.args.page) = NoAttribs
                    THEN "None" ELSE "Some")
      [] t.locals.call = "root_frame_index" -> Outcome(st, st.mem, st.array, "Ok")

\* interrupts::without, `let interrupts_enabled = are_enabled();`.
WithoutEnter(c) ==
    /\ TaskRunning(c) /\ task[c].pc = "without"
    /\ TaskStep(c, "disable",
                [task[c].locals EXCEPT !.interrupts_enabled = are_enabled(c)], locks)
    /\ UNCHANGED <<array, map, addressor, rflags_if>>

\* interrupts::without, `if interrupts_enabled { disable() }`.
WithoutDisable(c) ==
    /\ TaskRunning(c) /\ task[c].pc = "disable"
    /\ rflags_if' = without_disable(task[c].locals.interrupts_enabled, rflags_if)
    /\ TaskStep(c, "virtual_map", task[c].locals, locks)
    /\ UNCHANGED <<array, map, addressor>>

\* self.virtual_map.write() / .read().
VirtualMapLock(c) ==
    /\ TaskRunning(c) /\ task[c].pc = "virtual_map" /\ ReadyI(c)
    /\ TaskLock(c, "body",
                [locks EXCEPT !.virtual_map =
                    IF task[c].locals.call \in WriteCalls
                    THEN RwLock_write(@, c) ELSE RwLock_read(@, c)])

\* The step under the lock with outcome o, and the drop of the guard;
\* root_frame_index returns here, the others go back into `without`.
PMApply(c, o) ==
    /\ mem' = o.mem
    /\ array' = o.array
    /\ halted' = (o.res = "panic")
    /\ last' = Call(task[c].locals.call, task[c].args.page, task[c].args.to,
                    task[c].locals.frame, "-", task[c].args.attrs, task[c].args.mode,
                    o.res)
    /\ locks' = IF o.res = "panic" THEN locks
                ELSE [locks EXCEPT !.virtual_map =
                         IF task[c].locals.call \in WriteCalls
                         THEN drop_write(@) ELSE drop_read(@, c)]
    /\ task' = [task EXCEPT ![c] =
                   IF o.res = "panic" THEN @
                   ELSE IF task[c].locals.call = "root_frame_index" THEN IdleTask
                   ELSE [@ EXCEPT !.pc = "enable", !.locals.res = o.res]]
    /\ UNCHANGED <<impl, nxe, root, installed, ops, cpu, map, addressor, rflags_if, tlb>>

PMBody(c) ==
    /\ TaskRunning(c) /\ task[c].pc = "body" /\ ReadyI(c)
    /\ PMApply(c, PMOutcome(Cur, task[c]))

\* interrupts::without, `if interrupts_enabled { enable() }` and the return;
\* map_mmio goes on with set_page_attributes or map after is_mapped.
WithoutEnable(c) ==
    /\ TaskRunning(c) /\ task[c].pc = "enable"
    /\ rflags_if' = without_enable(task[c].locals.interrupts_enabled, rflags_if)
    /\ task' = [task EXCEPT ![c] =
                   IF task[c].op = "map_mmio" /\ task[c].locals.call = "is_mapped"
                   THEN [@ EXCEPT !.pc = "without",
                                  !.locals.call = IF task[c].locals.res = "true"
                                                  THEN "set_page_attributes" ELSE "map"]
                   ELSE IdleTask]
    /\ UNCHANGED <<impl, nxe, array, mem, root, halted, last, installed, ops, cpu, map,
                   addressor, locks, tlb>>

\* A call of the Ledger made outside `without`: the write lock of its array.
LedgerLock(c) ==
    /\ TaskRunning(c) /\ task[c].pc = "array" /\ ReadyI(c)
    /\ TaskLock(c, "ledger", [locks EXCEPT !.array = RwLock_write(@, c)])

\* The call under that lock with the array it leaves, and the drop of the
\* guard: the operation goes on at pc with locals.
LedgerApply(c, array2, pc, locals) ==
    /\ array' = array2
    /\ TaskStep(c, pc, locals, [locks EXCEPT !.array = drop_write(@)])
    /\ UNCHANGED <<map, addressor, rflags_if>>

\* frame_manager.lock_next().unwrap() of auto_map.
LedgerLockNext(c, r) ==
    IF r.index = None
    THEN /\ halted' = TRUE
         /\ UNCHANGED <<impl, nxe, array, mem, root, last, installed, ops, cpu, map,
                        addressor, locks, task, rflags_if, tlb>>
    ELSE LedgerApply(c, r.array, "without",
                     [task[c].locals EXCEPT !.frame = r.index, !.call = "map"])

\* frame_manager.lock(frame_index).ok() and force_modify_type(.., MMIO).ok() of
\* map_mmio.
LedgerCall(c) ==
    /\ TaskRunning(c) /\ task[c].pc = "ledger"
    /\ CASE task[c].locals.ledger = "lock_next" -> LedgerLockNext(c, lock_next(array))
         [] task[c].locals.ledger = "lock" ->
               LedgerApply(c, lock(array, task[c].args.frame).array, "array",
                           [task[c].locals EXCEPT !.ledger = "force_modify_type"])
         [] task[c].locals.ledger = "force_modify_type" ->
               LedgerApply(c,
                           IF task[c].args.frame \in Frames
                           THEN force_modify_type(array, task[c].args.frame, MMIOFrame)
                           ELSE array,
                           "without", [task[c].locals EXCEPT !.call = "is_mapped"])

\* The inputs of the operations on that core.
IntPages == {0, 1}
IntFrames == {element_count - 1}

\* The kernel code calls PageManager and alloc; it runs while no handler does.
KernelCalls ==
    /\ task[2] = IdleTask
    /\ \/ \E page \in IntPages, frame \in IntFrames, lock_frame \in BOOLEAN :
             CallPM(1, "map", page, None, frame, lock_frame, RW, "-")
       \/ \E page \in IntPages : CallPM(1, "unmap", page, None, None, FALSE, {}, "-")
       \/ \E page \in IntPages, to \in IntPages :
             CallPM(1, "copy_by_map", page, to, None, FALSE, NoAttribs, "-")
       \/ \E page \in IntPages :
             CallPM(1, "set_page_attributes", page, None, None, FALSE, RW, "Remove")
       \/ \E page \in IntPages, frame \in IntFrames, call \in ReadCalls :
             CallPM(1, call, page, None, frame, FALSE, {}, "-")
       \/ \E page \in IntPages : CallAutoMap(1, page, RW)
       \/ \E page \in IntPages, frame \in IntFrames : CallMapMmio(1, page, frame)
       \/ CallAlloc(1, BLOCK_SIZE, BLOCK_SIZE)

\* An interrupt is taken while RFLAGS.IF is set and no handler runs; the
\* handler maps a page, locking its frame, or allocates.
Interrupt ==
    /\ rflags_if
    /\ \/ \E page \in IntPages, frame \in IntFrames :
             CallPM(2, "map", page, None, frame, TRUE, RW, "-")
       \/ CallAlloc(2, BLOCK_SIZE, BLOCK_SIZE)

\* The steps of context c: the kernel code stands still while a handler runs.
Scheduled(c) == c = 1 => task[2] = IdleTask

InitI == Init /\ impl = "kernel" /\ nxe

NextI ==
    \/ KernelCalls
    \/ Interrupt
    \/ \E c \in Contexts : Scheduled(c) /\ WithoutEnter(c)
    \/ \E c \in Contexts : Scheduled(c) /\ WithoutDisable(c)
    \/ \E c \in Contexts : Scheduled(c) /\ VirtualMapLock(c)
    \/ \E c \in Contexts : Scheduled(c) /\ PMBody(c)
    \/ \E c \in Contexts : Scheduled(c) /\ WithoutEnable(c)
    \/ \E c \in Contexts : Scheduled(c) /\ LedgerLock(c)
    \/ \E c \in Contexts : Scheduled(c) /\ LedgerCall(c)
    \/ \E c \in Contexts : Scheduled(c) /\ MapRead(c)
    \/ \E c \in Contexts : Scheduled(c) /\ AllocScan(c)
    \/ \E c \in Contexts : Scheduled(c) /\ GrowUpgradeableRead(c)
    \/ \E c \in Contexts : Scheduled(c) /\ GrowMapPages(c)
    \/ \E c \in Contexts : Scheduled(c) /\ GrowUpgrade(c)
    \/ \E c \in Contexts : Scheduled(c) /\ MapWrite(c)
    \/ \E c \in Contexts : Scheduled(c) /\ AllocMark(c)

SpecI == InitI /\ [][NextI]_vars

(* ------------------------------------------------------------------ *)
(* C23, C24: locks and interrupts                                      *)
(* ------------------------------------------------------------------ *)

\* The handler waits for a lock the interrupted code holds: it spins for
\* ever, the code it interrupted does not run before it returns.
Spins(c) == TaskRunning(c) /\ ~ReadyI(c)

\* C23: while map, unmap, copy_by_map, is_mapped, is_mapped_to, get_mapped_to,
\* get_page_attributes or set_page_attributes of the kernel PageManager holds
\* virtual_map, for reading or for writing, interrupts are disabled on the
\* core, and a handler that asks for virtual_map never finds it held by such a
\* function of the code it interrupted.
C23_VirtualMapHeldInterruptsOff ==
    /\ \A c \in Contexts :
          ("virtual_map" \in HeldBy(c) /\ task[c].locals.call \in WithoutCalls)
              => ~are_enabled(c)
    /\ (Spins(2) /\ task[2].pc = "virtual_map" /\ "virtual_map" \in HeldBy(1))
          => task[1].locals.call \notin WithoutCalls

\* The kernel code is under virtual_map.write() inside a `without` that found
\* the interrupts enabled and disabled them.
C23_Witness ==
    /\ task[1].pc = "body" /\ task[1].locals.call \in WriteCalls
    /\ locks.virtual_map.writer = 1
    /\ task[1].locals.interrupts_enabled /\ ~rflags_if

\* root_frame_index, which is not among them, is interrupted under
\* virtual_map.read() and the handler's map spins on it.
RootFrameIndexInterrupted ==
    /\ Spins(2) /\ task[2].pc = "virtual_map"
    /\ task[1].op = "root_frame_index" /\ 1 \in locks.virtual_map.readers

\* C24: whenever the kernel code holds the array of the Ledger, virtual_map,
\* or the map or the addressor of the BlockAllocator as a writer (or as the
\* upgradeable reader grow turns into one), interrupts are disabled on the
\* core; and a handler that calls alloc or map never waits for a lock.
C24_WritersRunInterruptsOff ==
    /\ \A n \in DOMAIN locks :
          (locks[n].writer = 1 \/ locks[n].upgraded = 1) => ~rflags_if
    /\ ~Spins(2)

\* The handler's map waits for the array auto_map holds for lock_next.
HandlerSpinsOnLedger ==
    /\ Spins(2) /\ task[2].op = "map" /\ task[2].pc = "body"
    /\ task[1].op = "auto_map" /\ locks.array.writer = 1

\* The handler's alloc waits for the map the alloc it interrupted marks.
HandlerSpinsOnMap ==
    /\ Spins(2) /\ task[2].op = "alloc" /\ task[2].pc = "scan"
    /\ task[1].op = "alloc" /\ locks.map.writer = 1

(* ------------------------------------------------------------------ *)
(* C27: a double map                                                   *)
(* ------------------------------------------------------------------ *)

\* C27: a map of a page that is mapped returns MapError::AlreadyMapped or
\* halts, and leaves the page tables and every frame's state as they were.
C27_DoubleMapRejected ==
    [][(last'.op = "map" /\ ops' = ops + 1 /\ is_mapped(Cur, last'.page)) =>
          /\ last'.res = "AlreadyMapped" \/ halted'
          /\ mem' = mem
          /\ array' = array]_vars

(* ------------------------------------------------------------------ *)
(* C28: intermediate tables are never reclaimed                        *)
(* ------------------------------------------------------------------ *)

\* Frames holding a table of the three levels above the leaf tables.
NonLeafTables(st) ==
    LET l3 == { sub_table(st.mem, st.root, i) : i \in Indices } \ {None}
        l2 == { sub_table(st.mem, t, i) : t \in l3, i \in Indices } \ {None}
    IN  {st.root} \cup l3 \cup l2

\* The calls C28 speaks of.
MapperOps == {"map", "unmap", "copy_by_map", "set_page_attributes"}

\* A leaf table without a present entry.
EmptyLeafTables(st) ==
    { t \in TableFrames(st) \ NonLeafTables(st) :
        \A i \in Indices : "PRESENT" \notin st.mem[t][i].attrs }

RECURSIVE PathIn(_, _, _)
PathIn(st, page, depth) ==
    IF depth >= PAGING_LEVELS
    THEN RootAt
    ELSE [table |-> CellEntry(st, PathIn(st, page, depth + 1)).frame,
          index |-> entry_index(depth + 1, page)]

\* The entry of the given depth on the path of page exists and is present:
\* so is every entry above it.
PresentOnPath(st, page, depth) ==
    \A a \in depth .. (PAGING_LEVELS - 1) :
        is_present(CellEntry(st, PathIn(st, page, a)))

\* The depths of the intermediate entries of a walk to to_depth.
Intermediate(to_depth) == (to_depth + 1) .. (PAGING_LEVELS - 1)

\* The table in frame is zero but for the entry the descent installed in it.
ZeroBut(memory, frame, index, installed_below) ==
    \A i \in Indices : (i # index \/ ~installed_below) => memory[frame][i] = empty

\* What C29 says of with_entry_create(page, to_depth) made in st with outcome c:
\* present intermediate entries are as they were; when the walk succeeds, the
\* others hold PRESENT | WRITABLE | USER and a frame that was Free and is Locked
\* now, a different one each, whose table is zero below the path; and the
\* Ledger changed for those frames only.
CreatesPath(st, page, to_depth, c, after) ==
    /\ \A d \in Intermediate(to_depth) :
          PresentOnPath(st, page, d) =>
              /\ PathIn(after, page, d) = PathIn(st, page, d)
              /\ CellEntry(after, PathIn(st, page, d)) = CellEntry(st, PathIn(st, page, d))
    /\ c.res = "Ok" =>
          /\ \A d \in Intermediate(to_depth) :
                ~PresentOnPath(st, page, d) =>
                    LET e == CellEntry(after, PathIn(after, page, d))
                    IN  /\ e.attrs = {"PRESENT", "WRITABLE", "USER"}
                        /\ get(st.array, e.frame) = Free
                        /\ get(after.array, e.frame) = Locked
                        /\ ZeroBut(after.mem, e.frame, entry_index(d, page),
                                   d - 1 > to_depth)
                        /\ \A d2 \in Intermediate(to_depth) :
                              d2 # d =>
                                  CellEntry(after, PathIn(after, page, d2)).frame # e.frame
          /\ { f \in Frames : get(after.array, f) # get(st.array, f) } =
                { CellEntry(after, PathIn(after, page, d)).frame :
                    d \in { x \in Intermediate(to_depth) : ~PresentOnPath(st, page, x) } }

\* C29: read_or_create gives every absent intermediate entry on the path of
\* the page one frame freshly taken from the Ledger, zeroed, and installs it
\* present, writable and user-accessible; an intermediate entry that is
\* present keeps its frame and flags and no frame is taken for it.
C29_CreateFillsAbsentEntries ==
    ~halted =>
        \A p \in WPages, to_depth \in WDepths :
            LET c == with_entry_create(Cur, PAGING_LEVELS, RootAt, p, to_depth)
            IN  CreatesPath(Cur, p, to_depth, c,
                            [mem |-> c.mem, array |-> c.array, root |-> root])

\* An earlier read_or_create has made the upper tables of page TABLE_SIZE; a
\* read_or_create for it finds two intermediate entries present and creates
\* the third.
C29_Witness ==
    /\ ~halted
    /\ last.op = "with_entry_create" /\ last.res = "Ok"
    /\ PresentOnPath(Cur, TABLE_SIZE, 2) /\ ~PresentOnPath(Cur, TABLE_SIZE, 1)
    /\ with_entry_create(Cur, PAGING_LEVELS, RootAt, TABLE_SIZE, 0).res = "Ok"

(* ------------------------------------------------------------------ *)
(* C30: the index a cell selects                                       *)
(* ------------------------------------------------------------------ *)

\* libsys::table_index_shift(): index bits per level on x86_64.
table_index_shift == 9

\* PageDepth::max() with LA57: the depth of a 5-level root cell.
MAX_PAGING_LEVELS == PAGING_LEVELS + 1

\* A page number of up to MAX_PAGING_LEVELS index fields, kept in two limbs:
\* lo holds the three lowest fields, hi the fields above them.
LimbBits == 3 * table_index_shift
Wide(hi, lo) == [hi |-> hi, lo |-> lo]
WideOf(page) == Wide(page \div 2^(LimbBits), page % 2^(LimbBits))

\* page >> n on the limbs.
shr(x, n) ==
    IF n >= LimbBits
    THEN Wide(0, x.hi \div 2^(n - LimbBits))
    ELSE Wide(x.hi \div 2^(n),
              (x.lo \div 2^(n)) + (x.hi % 2^(n)) * 2^(LimbBits - n))

\* get_sub_entry_ptr on such a page:
\* (page >> ((depth - 1) * table_index_shift) >> page_shift) & table_index_mask,
\* the address being the page number << page_shift.
get_sub_entry_index(depth, x) ==
    shr(x, (depth - 1) * table_index_shift).lo % TABLE_SIZE

\* Bit k of the page number, bit page_shift + k of the address.
PageBit(x, k) ==
    IF k < LimbBits
    THEN (x.lo \div 2^(k)) % 2
    ELSE (x.hi \div 2^(k - LimbBits)) % 2

\* The number whose bits are bits from .. from + n - 1 of the page number.
RECURSIVE PageBits(_, _, _)
PageBits(x, from, n) ==
    IF n = 0 THEN 0 ELSE PageBit(x, from) + 2 * PageBits(x, from + 1, n - 1)

\* Page numbers with every field at its least, its greatest and in between.
WidePages ==
    { Wide(hi, lo) :
        hi \in {0, 1, TABLE_SIZE, TABLE_SIZE * TABLE_SIZE - 1},
        lo \in {0, TABLE_SIZE - 1, TABLE_SIZE * TABLE_SIZE + 1, 2^(LimbBits) - 1} }

\* Page numbers of a 4-level address space.
NarrowPages ==
    WPages \cup { TABLE_SIZE - 1, TABLE_SIZE * TABLE_SIZE + TABLE_SIZE + 1,
                  2^(LimbBits), 3 * 2^(LimbBits) + TABLE_SIZE + 2 }

\* C30: the cell of depth d >= 1 selects the entry whose index is bits
\* [page_shift + (d - 1) * w, page_shift + d * w) of the page address, below
\* the table size, with a 4-level and with a 5-level root; pages that differ
\* in an index field resolve to different leaf entries, and a page resolves to
\* the leaf entry its index fields lead to.
C30_IndexIsDepthField ==
    /\ \A x \in WidePages, d \in 1 .. MAX_PAGING_LEVELS :
          /\ get_sub_entry_index(d, x) =
                PageBits(x, (d - 1) * table_index_shift, table_index_shift)
          /\ get_sub_entry_index(d, x) < TABLE_SIZE
    /\ \A p \in NarrowPages, d \in 1 .. PAGING_LEVELS :
          entry_index(d, p) = get_sub_entry_index(d, WideOf(p))
    /\ \A x \in WidePages, y \in WidePages :
          x # y => \E d \in 1 .. MAX_PAGING_LEVELS :
                      get_sub_entry_index(d, x) # get_sub_entry_index(d, y)
    /\ ~halted =>
          \A p \in WPages, q \in WPages :
              LET rp == with_entry(Cur, PAGING_LEVELS, RootAt, p, 0)
                  rq == with_entry(Cur, PAGING_LEVELS, RootAt, q, 0)
              IN  rp.res = "Ok" =>
                      /\ rp.at = PathIn(Cur, p, 0)
                      /\ (rq.res = "Ok" /\ p # q) => rp.at # rq.at

\* The three pages are mapped: two share a leaf table, the third has its own.
C30_Witness ==
    /\ ~halted
    /\ \A p \in WPages : with_entry(Cur, PAGING_LEVELS, RootAt, p, 0).res = "Ok"
    /\ PathIn(Cur, 0, 0).table = PathIn(Cur, 1, 0).table
    /\ PathIn(Cur, 0, 0).table # PathIn(Cur, TABLE_SIZE, 0).table

(* ------------------------------------------------------------------ *)
(* Block Heap: which run alloc takes                                   *)
(* ------------------------------------------------------------------ *)

\* The blocks of the first BlockPages of the map, where every run the
\* operations of the model claim begins.
LowBlocks(blocks) ==
    { b \in 0 .. (4 * BLOCKS_PER - 1) : (b \div BLOCKS_PER) \in DOMAIN blocks }

\* size_in_blocks consecutive zero bits start at block b.
FreeRun(blocks, b, size_in_blocks) ==
    \A x \in b .. (b + size_in_blocks - 1) :
        (x \div BLOCKS_PER) \in DOMAIN blocks /\ ~BlockAllocated(blocks, x)

\* The lowest of a non-empty set of block indices.
Lowest(starts) == CHOOSE b \in starts : \A x \in starts : b <= x

\* Free runs among the low blocks whose start byte address is a multiple of
\* the alignment, and those whose start block index is.
AddressAlignedRuns(blocks, size_in_blocks, alignment) ==
    { b \in LowBlocks(blocks) :
        (b * BLOCK_SIZE) % alignment = 0 /\ FreeRun(blocks, b, size_in_blocks) }
IndexAlignedRuns(blocks, size_in_blocks, alignment) ==
    { b \in LowBlocks(blocks) :
        b % alignment = 0 /\ FreeRun(blocks, b, size_in_blocks) }

\* alloc(size, align) returns the lowest of the runs.
ReturnsLowest(hs, size, align, runs) ==
    runs # {} =>
        LET a == alloc(hs, size, align)
        IN  a.res # "panic" => a.ptr = Lowest(runs) * BLOCK_SIZE /\ a.grows = 0

\* C31: alloc(size, align) returns the lowest-indexed run of
\* ceil(size / block_size) consecutive zero bits of the map whose start byte
\* address is a multiple of the effective alignment, so that it reuses the
\* free blocks of a partially used page.
C31_AllocLowestAddressAlignedRun ==
    ~halted =>
        \A size \in AllocSizes, align \in AllocAligns :
            ReturnsLowest(HeapCur, size, align,
                          AddressAlignedRuns(map, align_up_div(size, BLOCK_SIZE),
                                             alloc_alignment(align)))

\* What the code does instead: it returns the lowest run whose start block
\* index is a multiple of the alignment in bytes.
AllocLowestIndexAlignedRun ==
    ~halted =>
        \A size \in AllocSizes, align \in AllocAligns :
            ReturnsLowest(HeapCur, size, align,
                          IndexAlignedRuns(map, align_up_div(size, BLOCK_SIZE),
                                           alloc_alignment(align)))

\* alloc(64, 64) was served from block 0 and the next alloc(64, 64) from
\* block 64, the first block of the next page, although block 1 is free.
SecondAllocTakesNextPage ==
    /\ last.op = "alloc" /\ last.res = "Ok" /\ last.size = BLOCK_SIZE
    /\ last.align = BLOCK_SIZE /\ last.ptr = BLOCKS_PER * BLOCK_SIZE
    /\ map[0] = {0}
    /\ map[1] = {0}

(* ------------------------------------------------------------------ *)
(* Two cores, each with a TLB                                          *)
(* ------------------------------------------------------------------ *)

\* Operations the cores complete.
MaxTlbOps == 2

\* tlb::invlpg(page): the executing core drops the translation of page from
\* its own TLB; cache is that core's TLB.
invlpg(cache, page) == [cache EXCEPT ![page] = NoTranslation]

\* The leaf entry of a page, the zero entry where a table above it is absent,
\* and the pages whose leaf entry differs between two states of the tables.
PteOf(st, page) ==
    LET e == get_page_entry(st, page)
    IN  IF e.found THEN EntryAt(st.mem, e) ELSE empty
ChangedPtes(before, after) == { p \in Pages : PteOf(before, p) # PteOf(after, p) }

\* lk_invlpg whose copy_by_map leaves the source page's translation cached.
lk_invlpg_destination_only(st, op, res, page, to) ==
    IF op = "copy_by_map"
    THEN IF res = "Ok" THEN <<to>> ELSE << >>
    ELSE IF res = "Ok" THEN <<page>> ELSE << >>

\* The pages the ownership-mode PageManager invalidates, in order, once an
\* operation has written its entries with result res: map in the closure that
\* installs the entry, unmap in the closure over the entry found,
\* copy_by_map through self.map(map_to) and then for unmap_from when the
\* result is Ok, set_page_attribs whether or not there is an entry.
lk_invlpg(st, op, res, page, to) ==
    CASE op = "map" -> IF res = "Ok" THEN <<page>> ELSE << >>
      [] op = "unmap" -> IF res = "Ok" THEN <<page>> ELSE << >>
      [] op = "copy_by_map" -> IF res = "Ok" THEN <<to, page>> ELSE << >>
      [] op = "set_page_attributes" -> <<page>>

\* The same of the lock_frame PageManager (x86_64): map in the Ok arm,
\* unmap in the closure over the entry found, copy_by_map for map_to and
\* then unmap_from, set_page_attributes inside the if let Some(page_entry).
k_invlpg(st, op, res, page, to) ==
    CASE op = "map" -> IF res = "Ok" THEN <<page>> ELSE << >>
      [] op = "unmap" -> IF res = "Ok" THEN <<page>> ELSE << >>
      [] op = "copy_by_map" -> IF res = "Ok" THEN <<to, page>> ELSE << >>
      [] op = "set_page_attributes" ->
            IF get_page_entry(st, page).found THEN <<page>> ELSE << >>

PM_invlpg(st, op, res, page, to) ==
    IF impl = "libkernel"
    THEN lk_invlpg(st, op, res, page, to)
    ELSE k_invlpg(st, op, res, page, to)

\* Core c is between operations and may start one.
TRunning(c) == ~halted /\ ops < MaxTlbOps /\ task[c] = IdleTask

\* What a core carries through an operation: the result, the pages still to
\* invalidate, the pages whose entry it wrote and those it invalidated since.
TLocals(res, pending, written, flushed) ==
    [res |-> res, pending |-> pending, written |-> written, flushed |-> flushed]

\* The step of core c that writes page-table entries: o is the outcome, pc
\* where it leaves the core.
TWriteStep(c, op, pc, args, locals, o) ==
    /\ mem' = o.mem
    /\ array' = o.array
    /\ halted' = (o.res = "panic")
    /\ task' = [task EXCEPT ![c] = [op |-> op, pc |-> pc, args |-> args,
                                    locals |-> locals]]
    /\ UNCHANGED <<impl, nxe, root, last, installed, ops, cpu, map, addressor, locks,
                   rflags_if, tlb>>

\* An operation that writes its entries in one critical section.
TWritten(c, op, args, o) ==
    TWriteStep(c, op, "written", args,
               TLocals(o.res, PM_invlpg(Cur, op, o.res, args.page, args.to),
                       ChangedPtes(Cur, o), {}),
               o)

TMap(c, page, frame_index, ownership, attribs) ==
    /\ TRunning(c)
    /\ TWritten(c, "map", PMArgs(page, None, frame_index, ownership = "Locked", attribs, "-"),
                PM_map(Cur, page, frame_index, ownership, attribs))

TUnmap(c, page, ownership) ==
    /\ TRunning(c)
    /\ ownership # "None" => ReleasedBy(Cur, page) \notin TableFrames(Cur)
    /\ TWritten(c, "unmap", PMArgs(page, None, None, ownership = "Locked", {}, "-"),
                PM_unmap(Cur, page, ownership))

TSetPageAttributes(c, page, attributes, modify_mode) ==
    /\ TRunning(c)
    /\ TWritten(c, "set_page_attributes",
                PMArgs(page, None, None, FALSE, attributes, modify_mode),
                PM_set_page_attributes(Cur, page, attributes, modify_mode))

\* copy_by_map of the lock_frame PageManager: one section under the write lock.
TKCopyByMap(c, unmap_from, map_to, new_attribs) ==
    /\ TRunning(c) /\ impl = "kernel"
    /\ TWritten(c, "copy_by_map",
                PMArgs(unmap_from, map_to, None, FALSE, new_attribs, "-"),
                k_copy_by_map(Cur, unmap_from, map_to, new_attribs, nxe))

\* copy_by_map of the ownership-mode PageManager, first section: the source
\* entry is read and cleared.
TCopyTake(c, unmap_from, map_to, new_attribs) ==
    /\ TRunning(c) /\ impl = "libkernel"
    /\ LET t == lk_copy_take(Cur, unmap_from, new_attribs)
           args == PMArgs(unmap_from, map_to, t.frame_index, FALSE, t.attribs, "-")
           o == Outcome(Cur, t.mem, array, IF t.found THEN "-" ELSE "NotMapped")
       IN  IF t.found
           THEN TWriteStep(c, "copy_by_map", "copied", args,
                           TLocals("-", << >>, ChangedPtes(Cur, o), {}), o)
           ELSE TWriteStep(c, "copy_by_map", "written", args,
                           TLocals("NotMapped",
                                   lk_invlpg(Cur, "copy_by_map", "NotMapped",
                                             unmap_from, map_to),
                                   {}, {}),
                           o)

\* ... second section: self.map(map_to, frame_index, None, attribs).
TCopyInstall(c) ==
    /\ ~halted
    /\ task[c].pc = "copied"
    /\ LET a == task[c].args
           o == lk_map(Cur, a.to, a.frame, "None", a.attrs)
       IN  TWriteStep(c, "copy_by_map", "written", a,
                      TLocals(o.res, lk_invlpg(Cur, "copy_by_map", o.res, a.page, a.to),
                              task[c].locals.written \cup ChangedPtes(Cur, o), {}),
                      o)

\* The next invlpg of the operation core c is in.
TInvlpg(c) ==
    /\ ~halted
    /\ task[c].pc = "written"
    /\ task[c].locals.pending # << >>
    /\ tlb' = [tlb EXCEPT ![c] = invlpg(@, Head(task[c].locals.pending))]
    /\ task' = [task EXCEPT ![c].locals =
                   [@ EXCEPT !.pending = Tail(@),
                             !.flushed = @ \cup {Head(task[c].locals.pending)}]]
    /\ UNCHANGED <<impl, nxe, array, mem, root, halted, last, installed, ops, cpu, map,
                   addressor, locks, rflags_if>>

\* The operation of core c returns.
TReturn(c) ==
    /\ ~halted
    /\ task[c].pc = "written"
    /\ task[c].locals.pending = << >>
    /\ last' = Call(task[c].op, task[c].args.page, task[c].args.to, task[c].args.frame,
                    "-", task[c].args.attrs, task[c].args.mode, task[c].locals.res)
    /\ ops' = ops + 1
    /\ cpu' = [cpu EXCEPT !.by = c]
    /\ task' = [task EXCEPT ![c] = IdleTask]
    /\ UNCHANGED <<impl, nxe, array, mem, root, halted, installed, map, addressor, locks,
                   rflags_if, tlb>>

\* The core's page walk: core c caches the translation of a present page.
TlbFill(c, page) ==
    /\ ~halted
    /\ is_mapped(Cur, page)
    /\ tlb[c][page] # PteOf(Cur, page)
    /\ tlb' = [tlb EXCEPT ![c][page] = PteOf(Cur, page)]
    /\ UNCHANGED <<impl, nxe, array, mem, root, halted, last, installed, ops, cpu, map,
                   addressor, locks, task, rflags_if>>

NextT ==
    \/ \E c \in Cores, p \in MCPages : TlbFill(c, p)
    \/ \E c \in Cores, p \in MCPages : TMap(c, p, element_count - 1, "Locked", RW)
    \/ \E c \in Cores, p \in MCPages : TUnmap(c, p, "None")
    \/ \E c \in Cores, p \in MCPages : TSetPageAttributes(c, p, {"WRITABLE"}, "Remove")
    \/ \E c \in Cores, p \in MCPages : \E q \in MCPages \ {p} :
          TKCopyByMap(c, p, q, NoAttribs)
    \/ \E c \in Cores, p \in MCPages : \E q \in MCPages \ {p} :
          TCopyTake(c, p, q, NoAttribs)
    \/ \E c \in Cores : TCopyInstall(c)
    \/ \E c \in Cores : TInvlpg(c)
    \/ \E c \in Cores : TReturn(c)

\* Both generations, on a CPU with EFER.NXE set.
InitT == Init /\ nxe

SpecT == InitT /\ [][NextT]_vars

(* ------------------------------------------------------------------ *)
(* TLB invalidation                                                    *)
(* ------------------------------------------------------------------ *)

\* C32: every operation that changed the entry of a page has invalidated that
\* page in the TLB of its own core, after the write, by the time it returns;
\* and a core's cached translation is dropped by that core's own invlpg of
\* the page only, never by an operation of the other core.
C32_LocalInvalidationAfterWrite ==
    [][\A c \in Cores :
          /\ (task[c].pc = "written" /\ task'[c] = IdleTask) =>
                 task[c].locals.written \subseteq task[c].locals.flushed
          /\ \A p \in MCPages :
                 (tlb[c][p] # NoTranslation /\ tlb'[c][p] = NoTranslation) =>
                     /\ task[c].pc = "written"
                     /\ task[c].locals.pending # << >>
                     /\ Head(task[c].locals.pending) = p]_vars

\* C32 happens: a copy_by_map has returned Ok on one core, which caches no
\* translation of the source page, while the other core still caches the
\* translation the source page had.
C32_Witness ==
    /\ last.op = "copy_by_map" /\ last.res = "Ok"
    /\ \A c \in Cores : task[c] = IdleTask
    /\ ~is_mapped(Cur, last.page)
    /\ tlb[cpu.by][last.page] = NoTranslation
    /\ \E d \in Cores \ {cpu.by} : tlb[d][last.page] # NoTranslation

(* ------------------------------------------------------------------ *)
(* map_mmio                                                            *)
(* ------------------------------------------------------------------ *)

\* After o, page is mapped to frame_index with the MMIO attributes and the
\* Ledger has frame_index as MMIO.
MmioMapped(o, page, frame_index) ==
    /\ is_mapped(o, page)
    /\ k_get_mapped_to(o, page) = frame_index
    /\ get_page_attributes(o, page) = StoredAttribs(MMIO)
    /\ get(o.array, frame_index) = MMIOFrame

\* C33: whenever map_mmio(page, f) returns Ok, page is mapped to frame f with
\* the MMIO attributes and the Ledger state of f is MMIO, whether or not page
\* was mapped, possibly to another frame, before the call.
C33_MapMmioMapsToFrame ==
    (~halted /\ impl = "kernel") =>
        \A p \in Pages, f \in FrameInputs :
            LET o == map_mmio(Cur, p, f, nxe)
            IN  o.res = "Ok" => MmioMapped(o, p, f)

\* What the code does keep of C33: a page that was not mapped is mapped to f;
\* a page that was mapped keeps its frame and gets the MMIO attributes; the
\* Ledger has f as MMIO either way.
MapMmioKeepsMappedFrame ==
    (~halted /\ impl = "kernel") =>
        \A p \in Pages, f \in FrameInputs :
            LET o == map_mmio(Cur, p, f, nxe)
            IN  o.res = "Ok" =>
                    /\ is_mapped(o, p)
                    /\ k_get_mapped_to(o, p)
                         = IF is_mapped(Cur, p) THEN k_get_mapped_to(Cur, p) ELSE f
                    /\ get_page_attributes(o, p) = StoredAttribs(MMIO)
                    /\ get(o.array, f) = MMIOFrame

\* map_mmio(page, f) has returned Ok on a page mapped to another frame, and
\* the page is still mapped to that frame.
MapMmioLeftOtherFrame ==
    /\ last.op = "map_mmio" /\ last.res = "Ok"
    /\ is_mapped(Cur, last.page)
    /\ k_get_mapped_to(Cur, last.page) # last.frame
    /\ state(last.frame) = MMIOFrame

(* ------------------------------------------------------------------ *)
(* Block Heap: identity_map                                            *)
(* ------------------------------------------------------------------ *)

\* The BlockPage of a frame has allocated blocks.
HasAllocatedBlocks(blocks, frame) ==
    frame \in DOMAIN blocks /\ ~is_empty(blocks[frame])

\* C34: identity_map(frame, _) on a frame whose BlockPage has allocated
\* blocks halts on its assertion and leaves the word as it is; on a BlockPage
\* that is zero it sets the word to all-ones, growing the map first when
\* frame.index() >= len().
C34_IdentityMapAssertsEmpty ==
    ~halted =>
        \A frame \in HeapFrames, virtual_map \in BOOLEAN :
            LET o == BlockAllocator_identity_map(HeapCur, frame, virtual_map)
            IN  IF HasAllocatedBlocks(map, frame)
                THEN o.res = "panic" /\ o.map = map
                ELSE o.res = "Ok" =>
                         /\ is_full(o.map[frame])
                         /\ (o.grows > 0) = (frame >= len(map))

\* What the code does instead: whatever the word holds, identity_map sets it
\* to all-ones and returns, unless the grow before it ran out of frames.
IdentityMapOverwrites ==
    ~halted =>
        \A frame \in HeapFrames, virtual_map \in BOOLEAN :
            LET o == BlockAllocator_identity_map(HeapCur, frame, virtual_map)
            IN  /\ o.res = "Ok" =>
                       /\ is_full(o.map[frame])
                       /\ (o.grows > 0) = (frame >= len(map))
                /\ frame < len(map) => o.res = "Ok"

\* A state in which the BlockPage of a frame handed to identity_map holds
\* some allocated blocks and is not full.
PartlyAllocatedBlockPage ==
    /\ ~halted
    /\ \E frame \in HeapFrames :
          HasAllocatedBlocks(map, frame) /\ ~is_full(map[frame])

(* ------------------------------------------------------------------ *)
(* Two cores on one BitValueArray                                      *)
(* ------------------------------------------------------------------ *)

\* A step is what a call does between two operations on the RwLock of the
\* array. last holds, per core, the latest call that returned.

\* No call has returned on a core.
NoResult == [op |-> "-", index |-> None, ok |-> FALSE]

\* BitValueArray::from_slice over the memory map, before any call.
InitL ==
    /\ impl = "ledger"
    /\ nxe = TRUE
    /\ array = InitArray
    /\ root = None
    /\ mem = [f \in Frames |-> EmptyTable]
    /\ halted = FALSE
    /\ last = [c \in Cores |-> NoResult]
    /\ installed = [p \in Pages |-> NoInstall]
    /\ ops = 0
    /\ cpu = [pc |-> [c \in Cores |-> "idle"], hold |-> [c \in Cores |-> NoHold], by |-> 0]
    /\ map = << >>
    /\ addressor = << >>
    /\ locks = NoLocks
    /\ task = [c \in Contexts |-> IdleTask]
    /\ rflags_if = TRUE
    /\ tlb = [c \in Cores |-> EmptyTlb]

\* Entry of insert_eq, set_eq_next and get.
CallInsertEq(c, index, new_type, eq_type) ==
    CallOp(c, "insert_eq", "upgradeable_read",
           [index |-> index, new_type |-> new_type, eq_type |-> eq_type], << >>)
CallSetEqNext(c, new_type, eq_type) ==
    CallOp(c, "set_eq_next", "write",
           [index |-> None, new_type |-> new_type, eq_type |-> eq_type], << >>)
CallGet(c, index) ==
    CallOp(c, "get", "read", [index |-> index, new_type |-> Free, eq_type |-> Free], << >>)

\* A call of core c returns: the array becomes array2, the locks l2.
LedgerReturn(c, index, ok, array2, l2) ==
    /\ array' = array2
    /\ locks' = l2
    /\ last' = [last EXCEPT ![c] = [op |-> task[c].op, index |-> index, ok |-> ok]]
    /\ task' = [task EXCEPT ![c] = IdleTask]
    /\ UNCHANGED <<impl, nxe, mem, root, halted, installed, ops, cpu, map, addressor,
                   rflags_if, tlb>>

\* insert_eq that reads the section without taking the upgradeable guard.
InsertEqUpgradeableRead_unguarded(c) ==
    /\ TaskRunning(c) /\ task[c].pc = "upgradeable_read"
    /\ TaskLock(c, "compare", locks)

\* insert_eq: self.array.upgradeable_read().
InsertEqUpgradeableRead(c) ==
    /\ TaskRunning(c) /\ task[c].pc = "upgradeable_read"
    /\ try_upgradeable_read(locks.array)
    /\ TaskLock(c, "compare", [locks EXCEPT !.array = RwLock_upgradeable_read(@, c)])

\* insert_eq: the section is read and the element compared with eq_type; a
\* different element returns false, the guard being dropped.
InsertEqCompare(c) ==
    /\ TaskRunning(c) /\ task[c].pc = "compare"
    /\ LET io == get_index_and_offset(task[c].args.index)
           section_value == array[io.section]
       IN  IF section_value[io.slot] # task[c].args.eq_type
           THEN LedgerReturn(c, task[c].args.index, FALSE, array,
                             [locks EXCEPT !.array.upgraded = None])
           ELSE /\ TaskStep(c, "upgrade", [section_value |-> section_value], locks)
                /\ UNCHANGED <<array, map, addressor, rflags_if>>

\* insert_eq: sections_read.upgrade()[section_index] = the section value read
\* with the element replaced; true is returned and the guard dropped.
InsertEqUpgrade(c) ==
    /\ TaskRunning(c) /\ task[c].pc = "upgrade"
    /\ try_upgrade(locks.array)
    /\ LET io == get_index_and_offset(task[c].args.index)
       IN  LedgerReturn(c, task[c].args.index, TRUE,
                        [array EXCEPT ![io.section] =
                            [task[c].locals.section_value EXCEPT
                                ![io.slot] = task[c].args.new_type]],
                        [locks EXCEPT !.array =
                            drop_write(RwLock_upgrade([@ EXCEPT !.upgraded = c], c))])

\* set_eq_next: self.array.write().
SetEqNextWrite(c) ==
    /\ TaskRunning(c) /\ task[c].pc = "write"
    /\ try_write(locks.array)
    /\ TaskLock(c, "scan", [locks EXCEPT !.array = RwLock_write(@, c)])

\* set_eq_next: the scan under the write guard, the store and the return.
SetEqNextScan(c) ==
    /\ TaskRunning(c) /\ task[c].pc = "scan"
    /\ LET r == set_eq_next(array, task[c].args.new_type, task[c].args.eq_type)
       IN  LedgerReturn(c, r.index, r.index # None, r.array,
                        [locks EXCEPT !.array = drop_write(@)])

\* get: self.array.read(), and the read under the guard.
GetRead(c) ==
    /\ TaskRunning(c) /\ task[c].pc = "read"
    /\ try_read(locks.array)
    /\ TaskLock(c, "reading", [locks EXCEPT !.array = RwLock_read(@, c)])
GetReturn(c) ==
    /\ TaskRunning(c) /\ task[c].pc = "reading"
    /\ LedgerReturn(c, task[c].args.index, get(array, task[c].args.index) = Free, array,
                    [locks EXCEPT !.array = drop_read(@, c)])

\* Frames the cores lock: a usable one and the Reserved one.
LockFrames == {element_count - 1, 0}

NextL ==
    \/ \E c \in Cores, f \in LockFrames : CallInsertEq(c, f, Locked, Free)
    \/ \E c \in Cores : CallSetEqNext(c, Locked, Free)
    \/ \E c \in Cores : CallGet(c, element_count - 1)
    \/ \E c \in Cores : InsertEqUpgradeableRead(c)
    \/ \E c \in Cores : InsertEqCompare(c)
    \/ \E c \in Cores : InsertEqUpgrade(c)
    \/ \E c \in Cores : SetEqNextWrite(c)
    \/ \E c \in Cores : SetEqNextScan(c)
    \/ \E c \in Cores : GetRead(c)
    \/ \E c \in Cores : GetReturn(c)

SpecL == InitL /\ [][NextL]_vars

(* ------------------------------------------------------------------ *)
(* Frame acquisition under concurrency                                 *)
(* ------------------------------------------------------------------ *)

\* The call that returned last on core c acquired frame f.
Acquired(c, f) ==
    /\ last[c].op \in {"insert_eq", "set_eq_next"}
    /\ last[c].ok /\ last[c].index = f

\* Both cores have called lock on frame f, Free at the start, and nothing else.
BothLocked(f) ==
    /\ get(InitArray, f) = Free
    /\ ops = 2
    /\ \A c \in Cores :
          task[c] = IdleTask /\ last[c].op = "insert_eq" /\ last[c].index = f

\* A call of core c returns in this step.
Returns(c) == task[c].op # "idle" /\ task'[c] = IdleTask

\* C35: two cores never obtain the same frame, from lock_next (set_eq_next)
\* or from lock (insert_eq); of two lock calls on the same Free frame exactly
\* one succeeds; a call that succeeds takes a frame that is Free up to its
\* store, and a call that fails leaves the array as it was.
C35_AtomicAcquisition ==
    /\ [](\A f \in Frames : ~(Acquired(1, f) /\ Acquired(2, f)))
    /\ [](\A f \in Frames : BothLocked(f) => (last[1].ok # last[2].ok))
    /\ [][\A c \in Cores :
            Returns(c) =>
                IF last'[c].op \in {"insert_eq", "set_eq_next"} /\ last'[c].ok
                THEN /\ get(array, last'[c].index) = Free
                     /\ array' = insert(array, last'[c].index, Locked)
                ELSE array' = array]_vars

\* C35 happens: both cores are inside lock on the same Free frame; core 1 has
\* found it Free under the upgradeable guard and core 2 waits for the guard.
C35_Witness ==
    /\ \A c \in Cores :
          task[c].op = "insert_eq" /\ task[c].args.index = element_count - 1
    /\ get(array, element_count - 1) = Free
    /\ task[1].pc = "upgrade" /\ locks.array.upgraded = 1
    /\ task[2].pc = "upgradeable_read"

\* ... and both have returned, core 1 with true and core 2 with false.
OneLockSucceeded ==
    /\ BothLocked(element_count - 1)
    /\ last[1].ok /\ ~last[2].ok
    /\ get(array, element_count - 1) = Locked

(* ------------------------------------------------------------------ *)
(* Block Heap: alloc on two cores                                      *)
(* ------------------------------------------------------------------ *)

\* The blocks of the run an alloc has found.
FoundRun(c) ==
    task[c].locals.start_block_index .. (task[c].locals.end_block_index - 1)

\* Core c is in alloc between its scan, whose read guard is dropped, and the
\* end of its marking loop.
HasFoundRun(c) == task[c].op = "alloc" /\ task[c].pc \in {"mark", "marking"}

\* The kernel has halted in alloc's marking loop on 'attempting to allocate
\* blocks that are already allocated': the Ledger still has a Free frame, so
\* it is not the unwrap of autolock() that failed.
AllocAssertionTripped ==
    /\ halted
    /\ last.op = "alloc" /\ last.res = "panic"
    /\ lock_next(array).index # None
    /\ \E c \in Contexts :
          HasFoundRun(c) /\ \E b \in FoundRun(c) : BlockAllocated(map, b)

\* C36: when two cores call alloc concurrently the runs they claim are
\* disjoint and neither call trips the assertion 'attempting to allocate
\* blocks that are already allocated': no core is left with a found run that
\* another core has claimed in the meantime.
C36_ConcurrentAllocsDisjoint ==
    /\ ~AllocAssertionTripped
    /\ \A c, d \in Contexts :
          (c # d /\ HasFoundRun(c) /\ HasFoundRun(d)) => FoundRun(c) \cap FoundRun(d) = {}

\* The window: both cores have found the same run and dropped the read guard,
\* neither has marked it yet.
SameRunFoundTwice ==
    /\ ~halted
    /\ \A c \in Contexts : task[c].op = "alloc" /\ task[c].pc = "mark"
    /\ FoundRun(1) = FoundRun(2)
    /\ locks.map = Unlocked

(* ------------------------------------------------------------------ *)
(* The Block Heap with its live allocations                            *)
(* ------------------------------------------------------------------ *)

\* installed holds the history here: the allocations that are live (pointer
\* and size of every alloc not handed back yet), the BlockPages claimed by
\* alloc_to and identity_map, and whether the first alloc has been called.
\* alloc_to and identity_map claim their pages before that, while the kernel
\* sets its memory up; alloc and dealloc make up the rest of the run.
NoAllocations == [live |-> {}, claimed |-> {}, started |-> FALSE]

MaxLiveOps == 4

ARunning == ~halted /\ ops < MaxLiveOps

InitA ==
    /\ impl = "heap"
    /\ nxe = TRUE
    /\ array = InitArray
    /\ root = None
    /\ mem = [f \in Frames |-> EmptyTable]
    /\ halted = FALSE
    /\ last = [op |-> "new", res |-> "Ok", ptr |-> None, size |-> None, align |-> None,
               frame |-> None, virtual_map |-> FALSE, grows |-> 0]
    /\ installed = NoAllocations
    /\ ops = 0
    /\ cpu = [pc |-> [c \in Cores |-> "idle"], hold |-> [c \in Cores |-> NoHold], by |-> 0]
    /\ map = << >>
    /\ addressor = << >>
    /\ locks = NoLocks
    /\ task = [c \in Contexts |-> IdleTask]
    /\ rflags_if = TRUE
    /\ tlb = [c \in Cores |-> EmptyTlb]

\* The step of a heap operation with outcome o that leaves the history inst
\* when it returns.
AStep(o, op, size, align, frame, virtual_map, inst) ==
    /\ map' = o.map
    /\ addressor' = o.addressor
    /\ array' = o.array
    /\ halted' = (o.res = "panic")
    /\ last' = [op |-> op, res |-> o.res, ptr |-> o.ptr, size |-> size, align |-> align,
                frame |-> frame, virtual_map |-> virtual_map, grows |-> o.grows]
    /\ installed' = IF o.res = "Ok" THEN inst ELSE installed
    /\ ops' = ops + 1
    /\ UNCHANGED <<impl, nxe, mem, root, cpu, locks, task, rflags_if, tlb>>

\* The BlockPages an operation has set full.
NewlyFull(before, after) ==
    { i \in DOMAIN after :
        is_full(after[i]) /\ (i \in DOMAIN before => ~is_full(before[i])) }

LiveAlloc(size, align) ==
    /\ ARunning
    /\ LET o == alloc(HeapCur, size, align)
       IN  AStep(o, "alloc", size, align, None, FALSE,
                 [installed EXCEPT !.live = @ \cup {[ptr |-> o.ptr, size |-> size]},
                                   !.started = TRUE])

\* dealloc of an allocation that is live, with the size it was made with.
LiveDealloc(a) ==
    /\ ARunning
    /\ a \in installed.live
    /\ AStep(dealloc(HeapCur, a.ptr, a.size), "dealloc", a.size, None, None, FALSE,
             [installed EXCEPT !.live = @ \ {a}])

LiveAllocTo(frame_base_index, size_in_frames) ==
    /\ ARunning
    /\ ~installed.started
    /\ LET o == alloc_to(HeapCur, frame_base_index, size_in_frames)
       IN  AStep(o, "alloc_to", size_in_frames, None, frame_base_index, FALSE,
                 [installed EXCEPT !.claimed = @ \cup NewlyFull(map, o.map)])

LiveIdentityMap(frame, virtual_map) ==
    /\ ARunning
    /\ ~installed.started
    /\ AStep(BlockAllocator_identity_map(HeapCur, frame, virtual_map),
             "identity_map", None, None, frame, virtual_map,
             [installed EXCEPT !.claimed = @ \cup {frame}])

\* Every allocation the history can hold.
LiveSizes == {BLOCK_SIZE, 100, PAGE_BYTES + BLOCK_SIZE}

LiveInputs ==
    { [ptr |-> i * PAGE_BYTES, size |-> size] : i \in 0 .. 5, size \in LiveSizes }

NextA ==
    \/ \E size \in LiveSizes : LiveAlloc(size, BLOCK_SIZE)
    \/ \E a \in LiveInputs : LiveDealloc(a)
    \/ \E frame \in HeapFrames : LiveAllocTo(frame, 1)
    \/ \E frame \in HeapFrames : LiveIdentityMap(frame, FALSE)

SpecA == InitA /\ [][NextA]_vars

(* ------------------------------------------------------------------ *)
(* Block Heap: the map against the live allocations                    *)
(* ------------------------------------------------------------------ *)

\* The bits of BlockPage i the history accounts for: all of a claimed page,
\* and the blocks of the live allocations that lie in it.
AccountedBits(i) ==
    (IF i \in installed.claimed THEN BlockPage_full ELSE BlockPage_empty)
    \cup { b % BLOCKS_PER :
             b \in { x \in UNION { DeallocBlocks(a.ptr, a.size) : a \in installed.live } :
                       x \div BLOCKS_PER = i } }

\* The live allocations are pairwise disjoint, and the bits set in the map
\* are the accounted ones, all of them in BlockPages the map holds.
MapMatchesLive ==
    /\ \A a, b \in installed.live :
          a # b => DeallocBlocks(a.ptr, a.size) \cap DeallocBlocks(b.ptr, b.size) = {}
    /\ \A i \in DOMAIN map : map[i] = AccountedBits(i)
    /\ \A a \in installed.live :
          \A x \in DeallocBlocks(a.ptr, a.size) : (x \div BLOCKS_PER) \in DOMAIN map
    /\ installed.claimed \subseteq DOMAIN map

\* C37: after any single-core sequence of alloc calls and of dealloc calls
\* that each match an earlier live alloc, the block ranges of the live
\* allocations are pairwise disjoint and the bits set in the map are the
\* union of those ranges and of the pages claimed by alloc_to and identity_map.
C37_MapMatchesLiveAllocations ==
    ~halted => MapMatchesLive

\* A page was claimed, two allocations were made and one of them was handed
\* back: the other is live, and the page of the freed one is empty again.
C37_Witness ==
    /\ ~halted
    /\ last.op = "dealloc" /\ last.res = "Ok"
    /\ installed.claimed # {}
    /\ Cardinality(installed.live) = 1
    /\ \E i \in DOMAIN map : ~is_empty(map[i]) /\ ~is_full(map[i])
    /\ is_empty(map[last.ptr \div PAGE_BYTES])

(* ------------------------------------------------------------------ *)
(* The Mapper with the ownership of every mapping                      *)
(* ------------------------------------------------------------------ *)

\* Number of map, unmap and copy_by_map calls issued after construction.
MaxOwnerOps == 4

\* Two pages of one leaf table and the two frames the page tables leave
\* usable; a page can be mapped over, and a frame can be borrowed twice.
OwnerPages == MCPages
OwnerFrames == {element_count - 2, element_count - 1}

\* installed holds, for every page, the frame and the ownership of the mapping
\* that map made for it and that copy_by_map moved to it, until unmap ends it.
\* The kernel's PageManager has lock_frame for the ownership: Locked or None.
OwnershipsOf(generation) ==
    IF generation = "kernel" THEN {"None", "Locked"} ELSE Ownerships

ORunning == ~halted /\ ops < MaxOwnerOps /\ last.res # "cleared"

OApply(o, call, inst) ==
    /\ mem' = o.mem
    /\ array' = o.array
    /\ halted' = (o.res = "panic")
    /\ last' = [call EXCEPT !.res = o.res]
    /\ installed' = IF o.res = "Ok" THEN inst ELSE installed
    /\ ops' = ops + 1
    /\ UNCHANGED <<impl, nxe, root, cpu, map, addressor, locks, task, rflags_if, tlb>>

OMap(page, frame_index, ownership, attribs) ==
    /\ ORunning
    /\ ownership \in OwnershipsOf(impl)
    /\ OApply(IF impl = "kernel"
              THEN k_map(Cur, page, frame_index, ownership = "Locked", attribs, nxe)
              ELSE lk_map(Cur, page, frame_index, ownership, attribs),
              Call("map", page, None, frame_index, ownership, attribs, "-", "-"),
              [installed EXCEPT ![page] = [frame |-> frame_index, own |-> ownership]])

\* unmap's first write that releases the frame and leaves the entry present.
unmap_release_first(st, page, ownership, generation, nx) ==
    [mem |-> st.mem,
     array |-> (CASE ownership = "Borrowed" -> drop(st.array, ReleasedBy(st, page))
                  [] ownership = "Locked" -> free(st.array, ReleasedBy(st, page))
                  [] OTHER -> [ok |-> TRUE, array |-> st.array]).array]
\* unmap's first write: entry.set_attributes(PRESENT, Remove), before the
\* frame is released.
unmap_clear_present(st, page, ownership, generation, nx) ==
    LET e == get_page_entry(st, page)
    IN  [mem |-> [st.mem EXCEPT ![e.table][e.index] =
                     IF generation = "kernel"
                     THEN set_attributes(@, {"PRESENT"}, "Remove", nx)
                     ELSE PageTableEntry_set_attributes(@, {"PRESENT"}, "Remove")],
         array |-> st.array]

\* unmap of a page that has a mapping, with the ownership the mapping was
\* made with: the entry loses PRESENT ...
OUnmapClear(page) ==
    /\ ORunning
    /\ installed[page] # NoInstall
    /\ get_page_entry(Cur, page).found
    /\ LET o == unmap_clear_present(Cur, page, installed[page].own, impl, nxe)
       IN  /\ mem' = o.mem
           /\ array' = o.array
    /\ last' = Call("unmap", page, None, installed[page].frame, installed[page].own,
                    {}, "-", "cleared")
    /\ UNCHANGED <<impl, nxe, root, halted, installed, ops, cpu, map, addressor, locks,
                   task, rflags_if, tlb>>

\* ... and then the frame is taken out of the entry and released.
OUnmapRelease ==
    /\ ~halted /\ last.res = "cleared"
    /\ OApply(IF impl = "kernel"
              THEN k_unmap(Cur, last.page, last.own = "Locked", nxe)
              ELSE lk_unmap(Cur, last.page, last.own),
              last, [installed EXCEPT ![last.page] = NoInstall])

\* copy_by_map moves the mapping of unmap_from, and its ownership, to map_to.
OCopyByMap(unmap_from, map_to, new_attribs) ==
    /\ ORunning
    /\ OApply(IF impl = "kernel"
              THEN k_copy_by_map(Cur, unmap_from, map_to, new_attribs, nxe)
              ELSE lk_copy_by_map(Cur, unmap_from, map_to, new_attribs),
              Call("copy_by_map", unmap_from, map_to, ReleasedBy(Cur, unmap_from), "-",
                   new_attribs, "-", "-"),
              [[installed EXCEPT ![unmap_from] = NoInstall]
                  EXCEPT ![map_to] =
                      [frame |-> ReleasedBy(Cur, unmap_from),
                       own |-> IF installed[unmap_from] = NoInstall
                               THEN "None" ELSE installed[unmap_from].own]])

NextO ==
    \/ \E p \in OwnerPages, f \in OwnerFrames, o \in Ownerships : OMap(p, f, o, RW)
    \/ \E p \in OwnerPages : OUnmapClear(p)
    \/ OUnmapRelease
    \/ \E p \in OwnerPages, q \in OwnerPages, a \in CopyAttrInputs : OCopyByMap(p, q, a)

SpecO == Init /\ [][NextO]_vars

(* ------------------------------------------------------------------ *)
(* Ownership safety                                                    *)
(* ------------------------------------------------------------------ *)

\* The frame a present entry of page refers to, None without one.
PresentFrame(page) ==
    IF is_mapped(Cur, page) THEN ReleasedBy(Cur, page) ELSE None

\* C38: in every state reached by map, copy_by_map and unmap calls made with
\* the ownership of the mapping they end, a present entry of a mapping made
\* with Locked ownership refers to a Locked frame and one made with Borrowed
\* ownership to a Borrowed(n) frame with n >= 1; unmap clears PRESENT before
\* it releases the frame, so no such frame is Free while a present entry
\* refers to it.
C38_OwnershipSafety ==
    \A p \in OwnerPages :
        (PresentFrame(p) # None /\ installed[p].own \in {"Locked", "Borrowed"}) =>
            /\ PresentFrame(p) = installed[p].frame
            /\ installed[p].own = "Locked" => state(PresentFrame(p)) = Locked
            /\ installed[p].own = "Borrowed" =>
                   /\ state(PresentFrame(p)).k = "Borrowed"
                   /\ state(PresentFrame(p)).n >= 1
            /\ state(PresentFrame(p)) # Free

\* unmap of a Borrowed mapping that copy_by_map had moved has cleared PRESENT
\* and not released the frame yet, which the other page still maps.
C38_Witness ==
    /\ last.op = "unmap" /\ last.res = "cleared" /\ last.own = "Borrowed"
    /\ PresentFrame(last.page) = None
    /\ state(last.frame) = Borrowed(2)
    /\ \E p \in OwnerPages \ {last.page} :
          PresentFrame(p) = last.frame /\ installed[p].own = "Borrowed"

\* An unmap of a Locked mapping has returned Ok and its frame is Free.
LockedMappingReleased ==
    /\ last.op = "unmap" /\ last.res = "Ok" /\ last.own = "Locked"
    /\ state(last.frame) = Free
    /\ PresentFrame(last.page) = None

(* ------------------------------------------------------------------ *)
(* interrupts::without inside interrupts::without                      *)
(* ------------------------------------------------------------------ *)
(* The locals of a context are its stack of calls of `without`, the    *)
(* innermost last. func is a closure that calls `without` again or     *)
(* returns; it does not execute cli or sti itself.                     *)

\* Calls of `without` made after construction, and how deep they nest.
MaxWithoutCalls == 4
MaxDepth == 3

calls(c) == task[c].locals
Top(c) == calls(c)[Len(calls(c))]

\* Context c executes: the handler once an interrupt is taken, the kernel code
\* while no handler runs.
Executing(c) ==
    /\ ~halted
    /\ IF c = 2 THEN task[2].op = "handler" ELSE task[2] = IdleTask

\* The context moves to the stack of calls s.
CallsStep(c, s) ==
    /\ task' = [task EXCEPT ![c] =
                   [op |-> IF c = 2 THEN "handler" ELSE IF s = << >> THEN "idle" ELSE "without",
                    pc |-> IF c = 2 THEN "handler" ELSE IF s = << >> THEN "idle" ELSE "without",
                    args |-> << >>, locals |-> s]]
    /\ UNCHANGED <<impl, nxe, array, mem, root, halted, installed, cpu, map, addressor,
                   locks, tlb>>

SetTop(c, frame) == [calls(c) EXCEPT ![Len(calls(c))] = frame]

\* without(func) is called, by the code of the context or by the func of the
\* call it is in. before is RFLAGS.IF of the context at the call.
WithoutCall(c) ==
    /\ Executing(c)
    /\ ops < MaxWithoutCalls /\ Len(calls(c)) < MaxDepth
    /\ IF calls(c) = << >> THEN TRUE ELSE Top(c).pc = "func"
    /\ CallsStep(c, Append(calls(c), [pc |-> "are_enabled", interrupts_enabled |-> FALSE,
                                      before |-> are_enabled(c)]))
    /\ ops' = ops + 1
    /\ UNCHANGED <<rflags_if, last>>

\* `let interrupts_enabled = are_enabled();`
WithoutAreEnabled(c) ==
    /\ Executing(c) /\ calls(c) # << >> /\ Top(c).pc = "are_enabled"
    /\ CallsStep(c, SetTop(c, [Top(c) EXCEPT !.pc = "disable",
                                            !.interrupts_enabled = are_enabled(c)]))
    /\ UNCHANGED <<rflags_if, last, ops>>

\* `if interrupts_enabled { disable() }`
WithoutCli(c) ==
    /\ Executing(c) /\ calls(c) # << >> /\ Top(c).pc = "disable"
    /\ rflags_if' = without_disable(Top(c).interrupts_enabled, rflags_if)
    /\ CallsStep(c, SetTop(c, [Top(c) EXCEPT !.pc = "func"]))
    /\ UNCHANGED <<last, ops>>

\* `let return_value = func();`: func returns.
WithoutFunc(c) ==
    /\ Executing(c) /\ calls(c) # << >> /\ Top(c).pc = "func"
    /\ CallsStep(c, SetTop(c, [Top(c) EXCEPT !.pc = "enable"]))
    /\ UNCHANGED <<rflags_if, last, ops>>

\* `if interrupts_enabled { enable() }` and the return.
WithoutSti(c) ==
    /\ Executing(c) /\ calls(c) # << >> /\ Top(c).pc = "enable"
    /\ rflags_if' = without_enable(Top(c).interrupts_enabled, rflags_if)
    /\ last' = [op |-> "without", context |-> c, depth |-> Len(calls(c)),
                before |-> Top(c).before,
                after |-> IF c = 2 THEN FALSE
                          ELSE without_enable(Top(c).interrupts_enabled, rflags_if)]
    /\ CallsStep(c, SubSeq(calls(c), 1, Len(calls(c)) - 1))
    /\ UNCHANGED ops

\* The kernel code, outside any `without`, calls disable() or enable().
KernelCli ==
    /\ Executing(1) /\ calls(1) = << >> /\ rflags_if
    /\ rflags_if' = FALSE
    /\ UNCHANGED <<impl, nxe, array, mem, root, halted, last, installed, ops, cpu, map,
                   addressor, locks, task, tlb>>

KernelSti ==
    /\ Executing(1) /\ calls(1) = << >> /\ ~rflags_if
    /\ rflags_if' = TRUE
    /\ UNCHANGED <<impl, nxe, array, mem, root, halted, last, installed, ops, cpu, map,
                   addressor, locks, task, tlb>>

\* An interrupt is taken while RFLAGS.IF is set and no handler runs.
TakeInterrupt ==
    /\ ~halted /\ rflags_if /\ task[2] = IdleTask
    /\ CallsStep(2, << >>)
    /\ UNCHANGED <<rflags_if, last, ops>>

\* The handler is done: iret restores the RFLAGS it interrupted.
Iret ==
    /\ Executing(2) /\ calls(2) = << >>
    /\ task' = [task EXCEPT ![2] = IdleTask]
    /\ UNCHANGED <<impl, nxe, array, mem, root, halted, last, installed, ops, cpu, map,
                   addressor, locks, rflags_if, tlb>>

NextN ==
    \/ \E c \in Contexts : WithoutCall(c)
    \/ \E c \in Contexts : WithoutAreEnabled(c)
    \/ \E c \in Contexts : WithoutCli(c)
    \/ \E c \in Contexts : WithoutFunc(c)
    \/ \E c \in Contexts : WithoutSti(c)
    \/ KernelCli
    \/ KernelSti
    \/ TakeInterrupt
    \/ Iret

SpecN == InitI /\ [][NextN]_vars

\* C39: without(f) runs f with the interrupts of the core disabled and leaves
\* RFLAGS.IF at its return as it was at the call; a `without` nested in the f
\* of an outer `without` does not enable interrupts before the outer returns.
C39_WithoutRestoresInterrupts ==
    /\ \A c \in Contexts : \A i \in 1 .. Len(calls(c)) :
          calls(c)[i].pc = "func" =>
              /\ ~are_enabled(c)
              /\ c = 1 => task[2] = IdleTask
    /\ last.op = "without" => (last.after = last.before)
    /\ \A c \in Contexts :
          Len(calls(c)) >= 2 => ~are_enabled(c)

\* The kernel code called `without` with interrupts enabled; the `without`
\* nested in its func has returned and the func goes on, interrupts disabled.
C39_Witness ==
    /\ last.op = "without" /\ last.context = 1 /\ last.depth = 2
    /\ ~last.before /\ ~last.after
    /\ Len(calls(1)) = 1 /\ calls(1)[1].pc = "func" /\ calls(1)[1].before
    /\ ~rflags_if

\* An outermost `without` called with interrupts enabled has returned with
\* interrupts enabled.
OuterWithoutReturned ==
    /\ last.op = "without" /\ last.context = 1 /\ last.depth = 1
    /\ last.before /\ rflags_if /\ calls(1) = << >>

(* ------------------------------------------------------------------ *)
(* A BitValueArray over any slice, with any element_count              *)
(* ------------------------------------------------------------------ *)
(* Elements are the bit patterns BitValue::as_usize gives; installed   *)
(* holds the element_count the array was made with.                    *)

\* Words of the longest slice, calls made on the array after from_slice, and
\* the bit patterns of the elements.
MaxWords == 2
MaxArrayOps == 3
BitValues == 0 .. 2

\* from_slice: slice.fill(0), and element_count kept as given.
from_slice(words, count) ==
    [array |-> [s \in 0 .. (words - 1) |-> [o \in 0 .. (ELEMENTS_PER_SECTION - 1) |-> 0]],
     element_count |-> count]

\* len(): element_count.
BitValueArray_len(bva) == bva.element_count

\* Slices of one and two words; element_count fills the slice, leaves slots of
\* its last word over, or asks for one element more than the slice holds.
InitV ==
    /\ impl = "bv_array"
    /\ nxe = TRUE
    /\ \E words \in 1 .. MaxWords, count \in 1 .. (MaxWords * ELEMENTS_PER_SECTION + 1) :
          /\ count <= words * ELEMENTS_PER_SECTION + 1
          /\ array = from_slice(words, count).array
          /\ installed = [element_count |-> from_slice(words, count).element_count]
    /\ root = None
    /\ mem = [f \in Frames |-> EmptyTable]
    /\ halted = FALSE
    /\ last = [op |-> "from_slice", index |-> None, new_type |-> 0, eq_type |-> 0]
    /\ ops = 0
    /\ cpu = [pc |-> [c \in Cores |-> "idle"], hold |-> [c \in Cores |-> NoHold], by |-> 0]
    /\ map = << >>
    /\ addressor = << >>
    /\ locks = NoLocks
    /\ task = [c \in Contexts |-> IdleTask]
    /\ rflags_if = TRUE
    /\ tlb = [c \in Cores |-> EmptyTlb]

VRunning == ~halted /\ ops < MaxArrayOps

VStep(op, index, new_type, eq_type, array2, panics) ==
    /\ array' = array2
    /\ halted' = panics
    /\ last' = [op |-> op, index |-> index, new_type |-> new_type, eq_type |-> eq_type]
    /\ ops' = ops + 1
    /\ UNCHANGED <<impl, nxe, mem, root, installed, cpu, map, addressor, locks, task,
                   rflags_if, tlb>>

\* insert(index, new_type) with an index that passes the assertion
\* index < len(); indexing the slice past its last word panics.
VInsert(index, new_type) ==
    /\ VRunning
    /\ index < BitValueArray_len(installed)
    /\ IF get_index_and_offset(index).section \in DOMAIN array
       THEN VStep("insert", index, new_type, 0, insert(array, index, new_type), FALSE)
       ELSE VStep("insert", index, new_type, 0, array, TRUE)

VSetEqNext(new_type, eq_type) ==
    /\ VRunning
    /\ VStep("set_eq_next", set_eq_next(array, new_type, eq_type).index, new_type, eq_type,
             set_eq_next(array, new_type, eq_type).array, FALSE)

NextV ==
    \/ \E index \in 0 .. (MaxWords * ELEMENTS_PER_SECTION), v \in BitValues :
          VInsert(index, v)
    \/ \E v \in BitValues, e \in BitValues : VSetEqNext(v, e)

SpecV == InitV /\ [][NextV]_vars

\* C40: set_eq_next only ever returns, and modifies, an element index below
\* len(), for every element_count and slice length, also when element_count
\* does not fill the last word: slots beyond len() are never handed out.
C40_SetEqNextBelowLen ==
    /\ (last.op = "set_eq_next" /\ last.index # None) =>
           last.index < BitValueArray_len(installed)
    /\ \A i \in SlotOrder(array) :
           i >= BitValueArray_len(installed) =>
               array[i \div ELEMENTS_PER_SECTION][i % ELEMENTS_PER_SECTION] = 0

\* What set_eq_next does return: an index below the number of slots of the
\* slice, whatever len() is.
SetEqNextBelowSlots ==
    (last.op = "set_eq_next" /\ last.index # None) =>
        /\ last.index \in SlotOrder(array)
        /\ get(array, last.index) = last.new_type

\* Every element below len() was stored, none equals eq_type, and set_eq_next
\* has handed out the slot at len().
SlotBeyondLenHandedOut ==
    /\ last.op = "set_eq_next"
    /\ last.index = BitValueArray_len(installed)
    /\ get(array, last.index) = last.new_type /\ last.new_type # 0

====
